---- MODULE Spec2Model ----
(***************************************************************************)
(* do-more: the loop Engine (internal/loop/loop.go), the loop Controller   *)
(* and the task/config handlers (internal/server/server.go) and the event  *)
(* translator (internal/server/events.go), as one state machine.           *)
(*                                                                         *)
(* Granularity.  The handlers serialise on Server.mu; the Engine takes no  *)
(* lock at all, so every LoadConfig/SaveConfig of a handler is a step of   *)
(* its own and Engine steps interleave between them.  A critical section   *)
(* that touches the config file at most once is a single step taken while  *)
(* the lock is free.  A step ends at a config-file access, at a lock       *)
(* acquisition or at the start/return of a provider or gate call.          *)
(***************************************************************************)
EXTENDS Integers, Sequences, FiniteSets, Bags, TLC

\* ---------------------------------------------------------------- bounds
MaxReq == 3       \* control-surface requests issued over a behaviour
MaxCrud == 1      \* of these, the task and config mutations
MaxRuns == 2      \* cancellation contexts (Engine runs) created
MaxTasks == 3     \* length of the persisted task list
InitMaxIterations == 2  \* maxIterations of the initial config

RunIds == 1..MaxRuns

\* ------------------------------------------------------------- constants
StatusPending == "pending"
StatusInProgress == "in_progress"
StatusDone == "done"
StatusFailed == "failed"

EventLoopStarted == "loop_started"
EventLoopCompleted == "loop_completed"
EventLoopError == "loop_error"
EventLoopStopped == "loop_stopped"
EventIterationStarted == "iteration_started"
EventProviderInvoked == "provider_invoked"
EventProviderFinished == "provider_finished"
EventGateResult == "gate_result"
EventTaskDone == "task_done"
EventTaskFailed == "task_failed"
EventLogMessage == "log_message"

\* the provider registry of the server under test: one registered provider
Registered == {"slow", "fast"}

\* ---------------------------------------------------------------- inputs
\* the request bodies and path ids the control surface is driven with; an
\* empty string is a field left out
CreateInputs ==
  { [title |-> "new", description |-> "", provider |-> ""],
    [title |-> "", description |-> "d", provider |-> ""] }
UpdateTaskInputs ==
  { [title |-> "upd", description |-> "", provider |-> "bogus"] }
\* maxIterations: -1 stands for an absent field (nil pointer); hasGates says
\* whether the gates field was supplied
UpdateConfigInputs ==
  { [provider |-> "", branch |-> "dev", hasGates |-> FALSE, gates |-> <<>>,
     maxIterations |-> 0] }
PathIds == {"2", "9"}

\* ----------------------------------------------------------------- state
VARIABLES
  disk,         \* the persisted config file (do-more.json)
  loopRunning,  \* Server.loopRunning
  loopCancel,   \* Server.loopCancel: 0 is nil, r cancels the context of run r
  mu,           \* Server.mu: TRUE when a handler holds it across steps
  hcfg,         \* the *Config loaded by the handler that holds mu
  reqs,         \* the requests in flight: a bag of handler positions
  issued,       \* how many requests have taken effect, and how many of
                \* them were task or config mutations
  runs,         \* per context: position and locals of the RunLoop under it,
                \* and the events its last step broadcast
  out,          \* the response and the events of the last step, when it
                \* was a handler's
  faulty,       \* whether LoadConfig/SaveConfig may fail (an unreadable or
                \* unwritable file); fixed over a behaviour
  subscribers,  \* EventHub.subscribers: the channels registered
  chans,        \* the channels Subscribe has made: buffer, closed or not,
                \* and how many events their client has read
  bcasts,       \* the calls of Broadcast in progress (they hold the read
                \* lock of EventHub.mu): the event, the channels still to try
  sent,         \* how many calls of Broadcast have begun; the n-th call
                \* broadcasts event n
  hist,         \* per channel: every event ever put in it, in order, the
                \* events dropped for it, and `sent` when it was registered
  overlap,      \* the pairs of events whose calls of Broadcast overlapped
  panicked,     \* a send on a closed channel or a second close has happened
  hubOp,        \* the last operation on the hub and its outcome
  logged,       \* a call of EventLogger.Log: the message, its text, and the
                \* event parseLogMessage made of it
  alloc         \* a call of nextTaskID: the task list and the id returned

srvVars == <<disk, loopRunning, loopCancel, mu, hcfg, reqs, issued, runs, out, faulty>>
hubVars == <<subscribers, chans, bcasts, sent, hist, overlap, panicked, hubOp>>
fnVars == <<logged, alloc>>
vars == <<srvVars, hubVars, fnVars>>
reqVars == <<reqs, issued>>
ctlVars == <<loopRunning, loopCancel>>

\* --------------------------------------------------------------- helpers
\* the outcomes of a LoadConfig or SaveConfig: TRUE is success
IO == IF faulty THEN BOOLEAN ELSE {TRUE}

Task(id, title, prov) ==
  [id |-> id, title |-> title, description |-> "", status |-> StatusPending,
   learnings |-> <<>>, provider |-> prov]

NoCfg ==
  [name |-> "", provider |-> "", branch |-> "", gates |-> <<>>,
   maxIterations |-> 0, tasks |-> <<>>]

\* an Event: Data holds the type-specific fields (a text, a number, a flag)
Data(text, n, passed) == [text |-> text, n |-> n, passed |-> passed]
NoData == Data("", 0, FALSE)
Event(type, taskId, data) == [type |-> type, taskId |-> taskId, data |-> data]

NoOut == [resp |-> "", events |-> <<>>]
Out(resp, events) == [resp |-> resp, events |-> events]

\* the first task that is not done, whatever else its status
NextUnfinishedTask(cfg) ==
  IF \E i \in 1..Len(cfg.tasks) : cfg.tasks[i].status # StatusDone
  THEN CHOOSE i \in 1..Len(cfg.tasks) :
         /\ cfg.tasks[i].status # StatusDone
         /\ \A j \in 1..(i-1) : cfg.tasks[j].status = StatusDone
  ELSE 0

\* Config.NextPendingTask: index of the first pending task, 0 for nil
NextPendingTask(cfg) ==
  IF \E i \in 1..Len(cfg.tasks) : cfg.tasks[i].status = StatusPending
  THEN CHOOSE i \in 1..Len(cfg.tasks) :
         /\ cfg.tasks[i].status = StatusPending
         /\ \A j \in 1..(i-1) : cfg.tasks[j].status # StatusPending
  ELSE 0

\* Task.EffectiveProvider: the override when non-empty, else the fallback
EffectiveProvider(task, fallback) ==
  IF task.provider # "" THEN task.provider ELSE fallback

\* the decimal digits, their characters and their values
Digits == {"0", "1", "2", "3", "4", "5", "6", "7", "8", "9"}
DigitOf(n) ==
  CASE n = 0 -> "0" [] n = 1 -> "1" [] n = 2 -> "2" [] n = 3 -> "3"
    [] n = 4 -> "4" [] n = 5 -> "5" [] n = 6 -> "6" [] n = 7 -> "7"
    [] n = 8 -> "8" [] n = 9 -> "9"
ValueOf(c) == CHOOSE n \in 0..9 : DigitOf(n) = c

\* %d of fmt.Sprintf, for n >= 0
RECURSIVE FormatInt(_)
FormatInt(n) == IF n < 10 THEN DigitOf(n) ELSE FormatInt(n \div 10) \o DigitOf(n % 10)

\* the digits s begins with
RECURSIVE ScanDigits(_)
ScanDigits(s) ==
  IF s = "" \/ Head(s) \notin Digits THEN ""
  ELSE Head(s) \o ScanDigits(Tail(s))

\* the number a string of digits denotes
RECURSIVE ParseInt(_, _)
ParseInt(s, acc) ==
  IF s = "" THEN acc ELSE ParseInt(Tail(s), 10 * acc + ValueOf(Head(s)))

\* strconv.Atoi: an optional sign, then digits and nothing else; anything
\* else is an error
Atoi(s) ==
  LET signed == s # "" /\ Head(s) \in {"+", "-"}
      body == IF signed THEN Tail(s) ELSE s
  IN IF body = "" \/ ScanDigits(body) # body
     THEN [err |-> TRUE, n |-> 0]
     ELSE [err |-> FALSE,
           n |-> IF signed /\ Head(s) = "-" THEN 0 - ParseInt(body, 0)
                 ELSE ParseInt(body, 0)]

\* strconv.Itoa
Itoa(n) == IF n < 0 THEN "-" \o FormatInt(0 - n) ELSE FormatInt(n)

RECURSIVE MaxNumericID(_, _)
MaxNumericID(tasks, maxID) ==
  IF tasks = <<>> THEN maxID
  ELSE LET a == Atoi(Head(tasks).id)
       IN MaxNumericID(Tail(tasks),
                       IF ~a.err /\ a.n > maxID THEN a.n ELSE maxID)

\* an allocator that counts the tasks
nextTaskIDByCount(tasks) == Itoa(Len(tasks) + 1)

\* server.go:305-313
nextTaskID(tasks) == Itoa(MaxNumericID(tasks, 0) + 1)

\* index of the first task with the given id, 0 when there is none
IndexOfID(cfg, id) ==
  IF \E i \in 1..Len(cfg.tasks) : cfg.tasks[i].id = id
  THEN CHOOSE i \in 1..Len(cfg.tasks) :
         /\ cfg.tasks[i].id = id
         /\ \A j \in 1..(i-1) : cfg.tasks[j].id # id
  ELSE 0

\* index of the first in_progress task, 0 when there is none
FirstInProgress(cfg) ==
  IF \E i \in 1..Len(cfg.tasks) : cfg.tasks[i].status = StatusInProgress
  THEN CHOOSE i \in 1..Len(cfg.tasks) :
         /\ cfg.tasks[i].status = StatusInProgress
         /\ \A j \in 1..(i-1) : cfg.tasks[j].status # StatusInProgress
  ELSE 0

RemoveAt(s, i) == SubSeq(s, 1, i-1) \o SubSeq(s, i+1, Len(s))

\* a learning line appended to Task.Learnings
Note(kind, n, p) == [kind |-> kind, n |-> n, p |-> p]

\* a progress message handed to Logger.Log
Msg(kind, id, n, p) == [kind |-> kind, id |-> id, n |-> n, p |-> p]

\* ---------------------------------------------------- the event translator
\* the typed event the message RunLoop emits of each kind is classified as
\* by parseLogMessage, whose work on the text of a message is followed in
\* the section on the translator
TypedEvent(msg) ==
  CASE msg.kind = "iteration" ->
         Event(EventIterationStarted, msg.id, Data(msg.p, msg.n, FALSE))
    [] msg.kind = "invoking" ->
         Event(EventProviderInvoked, "", Data(msg.p, 0, FALSE))
    [] msg.kind = "provider_finished" ->
         Event(EventProviderFinished, "", NoData)
    [] msg.kind = "gate_pass" ->
         Event(EventGateResult, "", Data(msg.p, 0, TRUE))
    [] msg.kind = "gate_fail" ->
         Event(EventGateResult, "", Data(msg.p, 0, FALSE))
    [] msg.kind = "task_done" -> Event(EventTaskDone, msg.id, NoData)
    [] msg.kind = "task_failed_max" -> Event(EventTaskFailed, msg.id, NoData)
    [] msg.kind = "starting" ->
         Event(EventLoopStarted, "", Data(msg.p, 0, FALSE))
    [] OTHER -> Event(EventLogMessage, "", Data(msg.kind, 0, FALSE))

\* EventLogger.Log: translate and broadcast, one event per message
RECURSIVE Log(_)
Log(msgs) ==
  IF msgs = <<>> THEN <<>>
  ELSE <<TypedEvent(Head(msgs))>> \o Log(Tail(msgs))

\* ------------------------------------------------------------------ Init
\* the config of setupLoopTestServer with two pending tasks; the second one
\* may carry a provider override that is not registered
InitConfig(mi, p2) ==
  [name |-> "loop-test", provider |-> "slow", branch |-> "main",
   gates |-> <<"g">>, maxIterations |-> mi,
   tasks |-> <<Task("1", "one", ""), Task("2", "two", p2)>>]

\* a request in flight: its handler, its position, and the locals it keeps:
\* the context start() created, and a string (the id of the task skip()
\* failed, later the provider of the config skip() reloaded)
Req(op, pc, run, arg) == [op |-> op, pc |-> pc, run |-> run, arg |-> arg]
NoRun ==
  [pc |-> "none", cancelled |-> FALSE, cfg |-> NoCfg, cur |-> 0, iter |-> 0,
   provider |-> "", p |-> "", err |-> "", ev |-> <<>>,
   calls |-> 0, gateRuns |-> 0]

\* ------------------------------------------------------------- the hub
MaxChans == 2        \* channels Subscribe makes
Capacity == 64       \* make(chan Event, 64)
ChanIds == 1..MaxChans

\* a channel not made yet
NoChan == [made |-> FALSE, closed |-> FALSE, buf |-> <<>>, nread |-> 0]
\* make(chan Event, 64)
MakeChan == [made |-> TRUE, closed |-> FALSE, buf |-> <<>>, nread |-> 0]
NoHist == [got |-> <<>>, dropped |-> {}, subAt |-> 0]
HubOp(op, ch, ev, ok) == [op |-> op, ch |-> ch, ev |-> ev, ok |-> ok]

\* no call of EventLogger.Log or nextTaskID on its own is followed
NoCall == [in |-> "", out |-> ""]
NoCalls ==
  /\ logged = NoCall
  /\ alloc = NoCall

\* NewEventHub: no subscriber, nothing broadcast
NewEventHub ==
  /\ subscribers = {}
  /\ chans = [c \in ChanIds |-> NoChan]
  /\ bcasts = {}
  /\ sent = 0
  /\ hist = [c \in ChanIds |-> NoHist]
  /\ overlap = {}
  /\ panicked = FALSE
  /\ hubOp = HubOp("", 0, 0, FALSE)

Init ==
  /\ disk = InitConfig(InitMaxIterations, "")
  /\ loopRunning = FALSE
  /\ loopCancel = 0
  /\ mu = FALSE
  /\ hcfg = NoCfg
  /\ reqs = EmptyBag
  /\ issued = [all |-> 0, crud |-> 0]
  /\ runs = [r \in RunIds |-> NoRun]
  /\ out = NoOut
  /\ faulty = FALSE
  /\ NoCalls
  /\ NewEventHub

\* ------------------------------------------------------------ the Engine
SetTask(cfg, i, t) == [cfg EXCEPT !.tasks[i] = t]
CurTask(run) == run.cfg.tasks[run.cur]

\* a RunLoop holding the lock of the server while its provider or its gates
\* run
StepHoldingLock(r, run, msgs) ==
  /\ runs' = [runs EXCEPT ![r] = [run EXCEPT !.ev = Log(msgs)]]
  /\ out' = NoOut
  /\ mu' = (run.pc \in {"provider", "gates"})
  /\ UNCHANGED <<ctlVars, hcfg, reqVars, faulty, hubVars, fnVars>>

\* run r takes a step to the locals `run`, logging msgs on the way
Step(r, run, msgs) ==
  /\ runs' = [runs EXCEPT ![r] = [run EXCEPT !.ev = Log(msgs)]]
  /\ out' = NoOut
  /\ UNCHANGED <<ctlVars, mu, hcfg, reqVars, faulty, hubVars, fnVars>>

\* the iteration loop is left (break, or its condition fails): its locals
\* are dead
LeaveLoop(run) ==
  [run EXCEPT !.pc = "persist", !.iter = 0, !.calls = 0, !.gateRuns = 0]

\* giving up one iteration early
LastIterationEarly(iteration, maxIterations) == iteration + 1 >= maxIterations

\* loop.go:67 and 100: no iteration is left after this one
LastIteration(iteration, maxIterations) == iteration >= maxIterations

\* the head of the iteration loop (loop.go:58-64): with the budget left the
\* iteration is announced and the provider call begins; otherwise the loop
\* is left with the task's status as it is
EnterIter(run, i) ==
  IF i <= run.cfg.maxIterations
  THEN [run |-> [run EXCEPT !.pc = "provider", !.iter = i, !.calls = @ + 1],
        msgs |-> << Msg("iteration", CurTask(run).id, i, CurTask(run).title),
                    Msg("invoking", "", 0, run.p) >>]
  ELSE [run |-> LeaveLoop(run), msgs |-> <<>>]

\* RunLoop returns: the goroutine goes on to its completion code
Return(run, err) ==
  [NoRun EXCEPT !.pc = "returned", !.err = err, !.cancelled = run.cancelled]

\* every task run with the default provider of the run
ResolveProviderDefault(task, providerName) == providerName

\* loop.go:43: the provider name looked up in the registry for a task
ResolveProvider(task, providerName) == EffectiveProvider(task, providerName)

\* loop.go:24-29
EngineLoad(r) ==
  /\ runs[r].pc = "load"
  /\ \E ok \in IO :
       IF ok
       THEN Step(r, [runs[r] EXCEPT !.cfg = disk, !.pc = "select"],
                 <<Msg("starting", "", 0, runs[r].provider)>>)
       ELSE Step(r, Return(runs[r], "loading config"), <<>>)
  /\ UNCHANGED disk

\* loop.go:32-44 and 55-64, and with no pending task left 117-132: the next
\* pending task is marked in_progress and saved; with its provider
\* registered the first iteration begins
EngineSelect(r) ==
  /\ runs[r].pc = "select"
  /\ LET run == runs[r]
         i == NextPendingTask(run.cfg)
         cfg2 == [run.cfg EXCEPT !.tasks[i].status = StatusInProgress]
         eff == ResolveProvider(cfg2.tasks[i], run.provider)
         sel == [run EXCEPT !.cfg = cfg2, !.cur = i, !.p = eff,
                            !.calls = 0, !.gateRuns = 0]
         nxt == EnterIter(sel, 1)
     IN IF i = 0
        THEN /\ Step(r, Return(run, ""),
                     <<Msg("summary", "", 0, ""), Msg("counts", "", 0, "")>>)
             /\ UNCHANGED disk
        ELSE \E ok \in IO :
               IF ~ok
               THEN Step(r, Return(run, "saving config"), <<>>) /\ UNCHANGED disk
               ELSE /\ disk' = cfg2
                    /\ IF eff \in Registered
                       THEN Step(r, nxt.run, nxt.msgs)
                       ELSE Step(r, [sel EXCEPT !.pc = "unknown"], <<>>)

\* the task left in_progress, without the note
UnknownProviderIgnored(t, p) == t

\* loop.go:46-47: the task whose provider is not registered
UnknownProviderTask(t, p) ==
  [t EXCEPT !.status = StatusFailed,
            !.learnings = Append(@, Note("unknown_provider", 0, p))]

\* loop.go:45-53: the provider is not registered
EngineUnknownProvider(r) ==
  /\ runs[r].pc = "unknown"
  /\ LET run == runs[r]
         failed == UnknownProviderTask(CurTask(run), run.p)
         cfg2 == SetTask(run.cfg, run.cur, failed)
         msgs == <<Msg("task_failed_unknown", failed.id, 0, run.p)>>
     IN \E ok \in IO :
          IF ok
          THEN /\ disk' = cfg2
               /\ Step(r, [run EXCEPT !.cfg = cfg2, !.pc = "select"], msgs)
          ELSE /\ UNCHANGED disk
               /\ Step(r, Return(run, "saving config"), msgs)

\* loop.go:64-76: the provider call returns, without an error (ok) or
\* with one
ProviderReturns(r, ok) ==
  /\ runs[r].pc = "provider"
  /\ LET run == runs[r]
         failed == [CurTask(run) EXCEPT
                      !.status = StatusFailed,
                      !.learnings = Append(@, Note("provider_error", run.iter, ""))]
         nxt == EnterIter(run, run.iter + 1)
         errMsg == <<Msg("provider_error", "", 0, "")>>
     IN IF ok
        THEN Step(r, [run EXCEPT !.pc = "gates", !.gateRuns = @ + 1],
                  <<Msg("provider_finished", "", 0, "")>>)
        ELSE IF LastIteration(run.iter, run.cfg.maxIterations)
        THEN Step(r, LeaveLoop([run EXCEPT !.cfg = SetTask(run.cfg, run.cur, failed)]),
                  errMsg)
        ELSE Step(r, nxt.run, errMsg \o nxt.msgs)
  /\ UNCHANGED disk

EngineProviderReturn(r) == \E ok \in BOOLEAN : ProviderReturns(r, ok)

\* the messages of loop.go:84-91 for a list of gate results
RECURSIVE GateMsgs(_, _)
GateMsgs(gates, passed) ==
  IF gates = <<>> THEN <<>>
  ELSE <<Msg(IF Head(passed) THEN "gate_pass" ELSE "gate_fail", "", 0, Head(gates))>>
       \o GateMsgs(Tail(gates), Tail(passed))

\* no result counting as a pass
NeverPassed(passed) == FALSE

\* one passing gate being enough
AnyPassed(passed) == \E g \in DOMAIN passed : passed[g]

\* loop.go:83-91: allPassed
AllPassed(passed) == \A g \in DOMAIN passed : passed[g]

\* the error of RunGates dropped: the task is saved as it is and the run
\* goes on
GatesErrorIgnored(r) ==
  /\ runs[r].pc = "gates"
  /\ Step(r, LeaveLoop(runs[r]), <<>>)
  /\ UNCHANGED disk

\* loop.go:78-81: RunGates returns an error of the mechanism
GatesError(r) ==
  /\ runs[r].pc = "gates"
  /\ Step(r, Return(runs[r], "running gates"), <<>>)
  /\ UNCHANGED disk

\* loop.go:83-107: RunGates returns one pass/fail result per configured gate
GatesReturn(r, passed) ==
  /\ runs[r].pc = "gates"
  /\ LET run == runs[r]
         t == CurTask(run)
         done == [t EXCEPT !.status = StatusDone]
         failed == [t EXCEPT
                      !.status = StatusFailed,
                      !.learnings = Append(@, Note("gates_failed", run.iter, ""))]
         nxt == EnterIter(run, run.iter + 1)
         gm == GateMsgs(run.cfg.gates, passed)
     IN IF AllPassed(passed)
        THEN Step(r, LeaveLoop([run EXCEPT !.cfg = SetTask(run.cfg, run.cur, done)]),
                  gm \o <<Msg("task_done", t.id, 0, "")>>)
        ELSE IF LastIteration(run.iter, run.cfg.maxIterations)
        THEN Step(r, LeaveLoop([run EXCEPT !.cfg = SetTask(run.cfg, run.cur, failed)]),
                  gm \o <<Msg("task_failed_max", t.id, 0, "")>>)
        ELSE Step(r, nxt.run, gm \o nxt.msgs)
  /\ UNCHANGED disk

\* loop.go:78-107
EngineGatesReturn(r) ==
  \/ GatesError(r)
  \/ \E passed \in [1..Len(runs[r].cfg.gates) -> BOOLEAN] : GatesReturn(r, passed)

\* a RunLoop that goes on to the next task without writing the file
EnginePersistSkipped(r) ==
  /\ runs[r].pc = "persist"
  /\ UNCHANGED disk
  /\ Step(r, [runs[r] EXCEPT !.pc = "select"], <<>>)

\* loop.go:110-112
EnginePersist(r) ==
  /\ runs[r].pc = "persist"
  /\ \E ok \in IO :
       IF ok
       THEN disk' = runs[r].cfg /\ Step(r, [runs[r] EXCEPT !.pc = "select"], <<>>)
       ELSE UNCHANGED disk /\ Step(r, Return(runs[r], "saving config"), <<>>)

\* server.go:357-360 and 446-449: the goroutine's completion code
EngineComplete(r) ==
  /\ runs[r].pc = "returned"
  /\ ~mu
  /\ loopRunning' = FALSE
  /\ loopCancel' = 0
  /\ runs' = [runs EXCEPT ![r].pc = "unlocked", ![r].ev = <<>>]
  /\ out' = NoOut
  /\ UNCHANGED <<disk, mu, hcfg, reqVars, faulty, hubVars, fnVars>>

\* a goroutine that reports every run as completed
TerminalEventAlwaysCompleted(err) == Event(EventLoopCompleted, "", NoData)

\* server.go:362-373 and 450-454: if err != nil { loop_error } else
\* { loop_completed }
TerminalEvent(err) ==
  IF err # ""
  THEN Event(EventLoopError, "", Data(err, 0, FALSE))
  ELSE Event(EventLoopCompleted, "", NoData)

\* server.go:362-373 and 450-454: the terminal event; the goroutine ends
EngineTerminal(r) ==
  /\ runs[r].pc = "unlocked"
  /\ runs' = [runs EXCEPT ![r] =
       [NoRun EXCEPT !.pc = "dead", !.cancelled = runs[r].cancelled,
                     !.ev = <<TerminalEvent(runs[r].err)>>]]
  /\ out' = NoOut
  /\ UNCHANGED <<disk, ctlVars, mu, hcfg, reqVars, faulty, hubVars, fnVars>>

\* ------------------------------------------------- the control surface
\* each request runs on a thread of its own; one may be issued while the
\* bound allows
Fresh == issued.all < MaxReq
FreshCrud == Fresh /\ issued.crud < MaxCrud

\* the handler goes on from position c to position d
Goto(c, d) ==
  /\ reqs' = (reqs (-) SetToBag({c})) (+) SetToBag({d})
  /\ UNCHANGED issued
\* a new request reaches position d
Enter(d, crud) ==
  /\ reqs' = reqs (+) SetToBag({d})
  /\ issued' = [all |-> issued.all + 1, crud |-> issued.crud + crud]
\* the handler at position c returns
Leave(c) ==
  /\ reqs' = reqs (-) SetToBag({c})
  /\ UNCHANGED issued

At(op, pc) == {c \in BagToSet(reqs) : c.op = op /\ c.pc = pc}

\* the handler returns at once, having changed nothing: a rejected request,
\* a failed load, a status query
Reject(resp) ==
  /\ Fresh
  /\ issued' = [issued EXCEPT !.all = @ + 1]
  /\ out' = Out(resp, <<>>)
  /\ UNCHANGED <<mu, hcfg, reqs>>

\* the handler has loaded and changed its copy; it saves it next
Loaded(op, cfg) ==
  /\ mu' = TRUE
  /\ hcfg' = cfg
  /\ Enter(Req(op, "save", 0, ""), 1)
  /\ out' = NoOut

\* SaveConfig, the response and the deferred Unlock of a task/config handler
SaveAndRespond(op, resp) ==
  /\ \E c \in At(op, "save") : Leave(c)
  /\ \E ok \in IO :
       IF ok
       THEN disk' = hcfg /\ out' = Out(resp, <<>>)
       ELSE UNCHANGED disk /\ out' = Out("500 failed to save config", <<>>)
  /\ mu' = FALSE
  /\ hcfg' = NoCfg
  /\ UNCHANGED <<ctlVars, runs, faulty, hubVars, fnVars>>

\* the task of server.go:166-172
NewTask(tasks, input) ==
  [id |-> nextTaskID(tasks), title |-> input.title,
   description |-> input.description, status |-> StatusPending,
   learnings |-> <<>>, provider |-> input.provider]

\* server.go:142-173
handleCreateTask ==
  /\ \E input \in CreateInputs :
       IF input.title = ""
       THEN Reject("400 title is required")
       ELSE /\ ~mu
            /\ \E ok \in IO :
                 IF ok
                 THEN /\ FreshCrud
                      /\ Len(disk.tasks) < MaxTasks
                      /\ Loaded("create",
                           [disk EXCEPT !.tasks = Append(@, NewTask(@, input))])
                 ELSE Reject("500 failed to load config")
  /\ UNCHANGED <<disk, ctlVars, runs, faulty, hubVars, fnVars>>

\* server.go:175-181
handleCreateTaskSave == SaveAndRespond("create", "201")

\* the partial update of server.go:211-219
ApplyTaskInput(t, input) ==
  [t EXCEPT
     !.title = IF input.title # "" THEN input.title ELSE @,
     !.description = IF input.description # "" THEN input.description ELSE @,
     !.provider = IF input.provider # "" THEN input.provider ELSE @]

\* an update or delete that does not look at the status of the task
TaskRefusalAnyStatus(ok, cfg, i, conflict) ==
  IF ~ok THEN "500 failed to load config"
  ELSE IF i = 0 THEN "404 task not found"
  ELSE ""

\* what update and delete answer once they hold the lock and have called
\* LoadConfig, for the task at index i (0: no task has the id of the path);
\* "" when they go on (server.go:198-209, 229 and 238-248, 260)
TaskRefusal(ok, cfg, i, conflict) ==
  IF ~ok THEN "500 failed to load config"
  ELSE IF i = 0 THEN "404 task not found"
  ELSE IF cfg.tasks[i].status = StatusInProgress THEN conflict
  ELSE ""

\* server.go:183-219 and 229
handleUpdateTask ==
  /\ ~mu
  /\ \E id \in PathIds, input \in UpdateTaskInputs, ok \in IO :
       LET i == IndexOfID(disk, id)
           refusal == TaskRefusal(ok, disk, i, "409 cannot modify in_progress task")
       IN IF refusal # "" THEN Reject(refusal)
          ELSE /\ FreshCrud
               /\ Loaded("update",
                    SetTask(disk, i, ApplyTaskInput(disk.tasks[i], input)))
  /\ UNCHANGED <<disk, ctlVars, runs, faulty, hubVars, fnVars>>

\* server.go:220-225
handleUpdateTaskSave == SaveAndRespond("update", "200")

\* server.go:232-250 and 260
handleDeleteTask ==
  /\ ~mu
  /\ \E id \in PathIds, ok \in IO :
       LET i == IndexOfID(disk, id)
           refusal == TaskRefusal(ok, disk, i, "409 cannot delete in_progress task")
       IN IF refusal # "" THEN Reject(refusal)
          ELSE /\ FreshCrud
               /\ Loaded("delete", [disk EXCEPT !.tasks = RemoveAt(@, i)])
  /\ UNCHANGED <<disk, ctlVars, runs, faulty, hubVars, fnVars>>

\* server.go:251-256
handleDeleteTaskSave == SaveAndRespond("delete", "204")

\* the partial update of server.go:284-295
ApplyConfigInput(cfg, input) ==
  [cfg EXCEPT
     !.provider = IF input.provider # "" THEN input.provider ELSE @,
     !.branch = IF input.branch # "" THEN input.branch ELSE @,
     !.gates = IF input.hasGates THEN input.gates ELSE @,
     !.maxIterations = IF input.maxIterations # -1 THEN input.maxIterations ELSE @]

\* server.go:263-295
handleUpdateConfig ==
  /\ ~mu
  /\ \E input \in UpdateConfigInputs, ok \in IO :
       IF ok
       THEN FreshCrud /\ Loaded("config", ApplyConfigInput(disk, input))
       ELSE Reject("500 failed to load config")
  /\ UNCHANGED <<disk, ctlVars, runs, faulty, hubVars, fnVars>>

\* server.go:297-302
handleUpdateConfigSave == SaveAndRespond("config", "200")

\* ------------------------------------------------------- the Controller
\* context.WithCancel: a context never used before
HasFreshRun == \E r \in RunIds : runs[r].pc = "none"
FreshRun ==
  CHOOSE r \in RunIds : runs[r].pc = "none" /\ \A x \in 1..(r-1) : runs[x].pc # "none"

\* the CancelFunc stored in loopCancel is invoked
Cancel(rs, r) == IF r = 0 THEN rs ELSE [rs EXCEPT ![r].cancelled = TRUE]

\* go func() { ... RunLoop(ctx, cfgPath, provider, ...) ... }
Spawn(rs, r, provider) == [rs EXCEPT ![r].pc = "load", ![r].provider = provider]

\* the goroutine running RunLoop before start() has broadcast anything
WithCancelAndGo(rs, r, provider) ==
  [rs EXCEPT ![r].pc = "load", ![r].provider = provider]

\* server.go:340-343: context.WithCancel; the context exists and its
\* CancelFunc is stored, no goroutine runs under it yet
WithCancel(rs, r, provider) ==
  [rs EXCEPT ![r].pc = "created", ![r].provider = provider]

\* start() without the check of loopRunning
StartRefusalNoConflict(running, ok, cfg) ==
  IF ~ok THEN "500 failed to load config"
  ELSE IF NextPendingTask(cfg) = 0 THEN "200 completed: no pending tasks"
  ELSE IF cfg.maxIterations < 1 THEN "400 maxIterations must be >= 1"
  ELSE ""

\* start() validating maxIterations before it looks for a pending task
StartRefusalBudgetFirst(running, ok, cfg) ==
  IF running THEN "409 loop already running"
  ELSE IF ~ok THEN "500 failed to load config"
  ELSE IF cfg.maxIterations < 1 THEN "400 maxIterations must be >= 1"
  ELSE IF NextPendingTask(cfg) = 0 THEN "200 completed: no pending tasks"
  ELSE ""

\* what start() answers once it holds the lock and has called LoadConfig
\* (server.go:317-338); "" when it goes on to start a run
StartRefusal(running, ok, cfg) ==
  IF running THEN "409 loop already running"
  ELSE IF ~ok THEN "500 failed to load config"
  ELSE IF NextPendingTask(cfg) = 0 THEN "200 completed: no pending tasks"
  ELSE IF cfg.maxIterations < 1 THEN "400 maxIterations must be >= 1"
  ELSE ""

\* server.go:315-343: the critical section of start()
handleLoopStart ==
  /\ ~mu
  /\ \E ok \in IO :
       IF StartRefusal(loopRunning, ok, disk) # ""
       THEN Reject(StartRefusal(loopRunning, ok, disk)) /\ UNCHANGED <<ctlVars, runs>>
       ELSE /\ Fresh
            /\ HasFreshRun
            /\ loopCancel' = FreshRun
            /\ loopRunning' = TRUE
            /\ runs' = WithCancel(runs, FreshRun, disk.provider)
            /\ Enter(Req("start", "spawn", FreshRun, ""), 0)
            /\ out' = NoOut
            /\ UNCHANGED <<mu, hcfg>>
  /\ UNCHANGED <<disk, faulty, hubVars, fnVars>>

\* server.go:345-376: the loop-started event, the goroutine, the response
handleLoopStartSpawn ==
  /\ \E c \in At("start", "spawn") :
       /\ Leave(c)
       /\ runs' = Spawn(runs, c.run, runs[c.run].provider)
       /\ out' = Out("200 started",
            <<Event(EventLoopStarted, "", Data(runs[c.run].provider, 0, FALSE))>>)
  /\ UNCHANGED <<disk, ctlVars, mu, hcfg, faulty, hubVars, fnVars>>

\* stop() cancelling without clearing loopRunning
StopStateKeepsRunning(running, cancel) ==
  [running |-> running, cancel |-> 0]

\* the run state stop() leaves (server.go:381-385)
StopState(running, cancel) ==
  IF cancel # 0
  THEN [running |-> FALSE, cancel |-> 0]
  ELSE [running |-> running, cancel |-> cancel]

\* a stop() that waits for the goroutine of the run it cancels to end
\* (loopWg.Wait) before it clears the run state
handleLoopStopJoin ==
  /\ ~mu
  /\ Fresh
  /\ \A r \in RunIds : runs[r].pc \in {"none", "created", "dead"}
  /\ runs' = Cancel(runs, loopCancel)
  /\ loopRunning' = StopState(loopRunning, loopCancel).running
  /\ loopCancel' = StopState(loopRunning, loopCancel).cancel
  /\ Enter(Req("stop", "broadcast", 0, ""), 0)
  /\ out' = NoOut
  /\ UNCHANGED <<disk, mu, hcfg, faulty, hubVars, fnVars>>

\* server.go:380-386: the critical section of stop()
handleLoopStop ==
  /\ ~mu
  /\ Fresh
  /\ runs' = Cancel(runs, loopCancel)
  /\ loopRunning' = StopState(loopRunning, loopCancel).running
  /\ loopCancel' = StopState(loopRunning, loopCancel).cancel
  /\ Enter(Req("stop", "broadcast", 0, ""), 0)
  /\ out' = NoOut
  /\ UNCHANGED <<disk, mu, hcfg, faulty, hubVars, fnVars>>

\* server.go:388-393
handleLoopStopBroadcast ==
  /\ \E c \in At("stop", "broadcast") : Leave(c)
  /\ out' = Out("200 stopped", <<Event(EventLoopStopped, "", NoData)>>)
  /\ UNCHANGED <<disk, ctlVars, mu, hcfg, runs, faulty, hubVars, fnVars>>

\* the task skip() fails: server.go:412-413
SkipTask(t) ==
  [t EXCEPT !.status = StatusFailed,
            !.learnings = Append(@, Note("skipped_by_user", 0, ""))]

\* skip() without the check of loopRunning
SkipRefusalNoConflict(running, ok) ==
  IF ~ok THEN "500 failed to load config" ELSE ""

\* what skip() answers once it holds the lock and has called LoadConfig
\* (server.go:398-409); "" when it goes on
SkipRefusal(running, ok) ==
  IF ~running THEN "409 no loop running"
  ELSE IF ~ok THEN "500 failed to load config"
  ELSE ""

\* the copy skip() saves: the first in_progress task, if any, is failed
\* (server.go:410-423)
SkipConfig(cfg) ==
  IF FirstInProgress(cfg) = 0 THEN cfg
  ELSE SetTask(cfg, FirstInProgress(cfg), SkipTask(cfg.tasks[FirstInProgress(cfg)]))

\* server.go:396-423: skip() takes the lock, loads, fails the task in its
\* copy and broadcasts
handleLoopSkip ==
  /\ ~mu
  /\ \E ok \in IO :
       LET i == FirstInProgress(disk)
       IN IF SkipRefusal(loopRunning, ok) # ""
          THEN Reject(SkipRefusal(loopRunning, ok))
          ELSE /\ Fresh
               /\ mu' = TRUE
               /\ hcfg' = SkipConfig(disk)
               /\ Enter(Req("skip", "save", 0,
                            IF i = 0 THEN "" ELSE disk.tasks[i].id), 0)
               /\ out' = Out("", IF i = 0 THEN <<>>
                                 ELSE <<Event(EventTaskFailed, disk.tasks[i].id,
                                              Data("skipped", 0, FALSE))>>)
  /\ UNCHANGED <<disk, ctlVars, runs, faulty, hubVars, fnVars>>

\* server.go:424: SaveConfig, its error dropped
handleLoopSkipSave ==
  /\ \E c \in At("skip", "save") : Goto(c, Req("skip", "cancel", 0, c.arg))
  /\ \E ok \in IO : disk' = IF ok THEN hcfg ELSE disk
  /\ out' = NoOut
  /\ UNCHANGED <<ctlVars, mu, hcfg, runs, faulty, hubVars, fnVars>>

\* server.go:426-431: cancel, clear the run state, unlock
handleLoopSkipCancel ==
  /\ \E c \in At("skip", "cancel") : Goto(c, Req("skip", "reload", 0, ""))
  /\ runs' = Cancel(runs, loopCancel)
  /\ loopRunning' = FALSE
  /\ loopCancel' = 0
  /\ mu' = FALSE
  /\ hcfg' = NoCfg
  /\ out' = NoOut
  /\ UNCHANGED <<disk, faulty, hubVars, fnVars>>

\* skip() never starting a run again
SkipNeverRestarts(ok, cfg2) == FALSE

\* whether skip() goes on to start a run, given what LoadConfig returned
\* (server.go:433-434)
SkipRestarts(ok, cfg2) == ok /\ NextPendingTask(cfg2) # 0

\* server.go:433-434, and 458 when there is nothing to restart
handleLoopSkipReload ==
  /\ \E c \in At("skip", "reload"), ok \in IO :
       IF SkipRestarts(ok, disk)
       THEN /\ Goto(c, Req("skip", "restart", 0, disk.provider))
            /\ out' = NoOut
       ELSE /\ Leave(c)
            /\ out' = Out("200 skipped", <<>>)
  /\ UNCHANGED <<disk, ctlVars, mu, hcfg, runs, faulty, hubVars, fnVars>>

\* server.go:435-458: the restart of skip(): a new context is stored, the
\* goroutine is started, the handler responds
handleLoopSkipRestart ==
  /\ ~mu
  /\ HasFreshRun
  /\ \E c \in At("skip", "restart") :
       /\ Leave(c)
       /\ runs' = Spawn(runs, FreshRun, c.arg)
  /\ loopCancel' = FreshRun
  /\ loopRunning' = TRUE
  /\ out' = Out("200 skipped", <<>>)
  /\ UNCHANGED <<disk, mu, hcfg, faulty, hubVars, fnVars>>

\* server.go:461-467
handleLoopStatus ==
  /\ ~mu
  /\ Reject(IF loopRunning THEN "200 running" ELSE "200 idle")
  /\ UNCHANGED <<disk, ctlVars, runs, faulty, hubVars, fnVars>>

\* ------------------------------------------------------ the specification
Next ==
  \/ \E r \in RunIds : EngineLoad(r)
  \/ \E r \in RunIds : EngineSelect(r)
  \/ \E r \in RunIds : EngineUnknownProvider(r)
  \/ \E r \in RunIds : EngineProviderReturn(r)
  \/ \E r \in RunIds : EngineGatesReturn(r)
  \/ \E r \in RunIds : EnginePersist(r)
  \/ \E r \in RunIds : EngineComplete(r)
  \/ \E r \in RunIds : EngineTerminal(r)
  \/ handleCreateTask
  \/ handleCreateTaskSave
  \/ handleUpdateTask
  \/ handleUpdateTaskSave
  \/ handleDeleteTask
  \/ handleDeleteTaskSave
  \/ handleUpdateConfig
  \/ handleUpdateConfigSave
  \/ handleLoopStart
  \/ handleLoopStartSpawn
  \/ handleLoopStop
  \/ handleLoopStopBroadcast
  \/ handleLoopSkip
  \/ handleLoopSkipSave
  \/ handleLoopSkipCancel
  \/ handleLoopSkipReload
  \/ handleLoopSkipRestart
  \/ handleLoopStatus

Spec == Init /\ [][Next]_vars

\* ------------------------------------------- the run command of the CLI
\* `do-more run` (cmd/do-more/main.go:76-103) calls RunLoop directly, with
\* no server beside it: one Engine alone on the config file.
MaxEngineTasks == 2       \* tasks of the config the command is run on
MaxEngineIterations == 2  \* its maxIterations, from 0
MaxGates == 2             \* its gates

EngineTaskLists ==
  UNION {[1..n -> [status : {StatusPending, StatusDone},
                   provider : {"", "fast", "bogus"}]] : n \in 1..MaxEngineTasks}

EngineConfig(l, mi, ng) ==
  [name |-> "cli", provider |-> "slow", branch |-> "main",
   gates |-> [g \in 1..ng |-> "g"], maxIterations |-> mi,
   tasks |-> [i \in 1..Len(l) |->
                [Task(Itoa(i), "t", l[i].provider) EXCEPT !.status = l[i].status]]]

InitEngine ==
  /\ \E l \in EngineTaskLists, mi \in 0..MaxEngineIterations, ng \in 0..MaxGates :
       disk = EngineConfig(l, mi, ng)
  /\ loopRunning = FALSE
  /\ loopCancel = 0
  /\ mu = FALSE
  /\ hcfg = NoCfg
  /\ reqs = EmptyBag
  /\ issued = [all |-> 0, crud |-> 0]
  /\ runs = [r \in RunIds |->
               IF r = 1 THEN [NoRun EXCEPT !.pc = "load", !.provider = disk.provider]
               ELSE NoRun]
  /\ out = NoOut
  /\ faulty = FALSE
  /\ NoCalls
  /\ NewEventHub

NextEngine ==
  \/ \E r \in RunIds : EngineLoad(r)
  \/ \E r \in RunIds : EngineSelect(r)
  \/ \E r \in RunIds : EngineUnknownProvider(r)
  \/ \E r \in RunIds : EngineProviderReturn(r)
  \/ \E r \in RunIds : EngineGatesReturn(r)
  \/ \E r \in RunIds : EnginePersist(r)

SpecEngine == InitEngine /\ [][NextEngine]_vars

\* the same command with a provider that never fails and gates that all pass
NextIdeal ==
  \/ \E r \in RunIds : EngineLoad(r)
  \/ \E r \in RunIds : EngineSelect(r)
  \/ \E r \in RunIds : EngineUnknownProvider(r)
  \/ \E r \in RunIds : ProviderReturns(r, TRUE)
  \/ \E r \in RunIds : GatesReturn(r, [g \in 1..Len(runs[r].cfg.gates) |-> TRUE])
  \/ \E r \in RunIds : EnginePersist(r)

SpecIdeal == InitEngine /\ [][NextIdeal]_vars

\* ------------------------------------------------------------ properties
\* a call of RunLoop that has not returned
Executing(r) ==
  runs[r].pc \in {"load", "select", "unknown", "provider", "gates", "persist"}

InProgressTasks(cfg) ==
  {i \in 1..Len(cfg.tasks) : cfg.tasks[i].status = StatusInProgress}

\* the step is one of RunLoop r's calls of SaveConfig (loop.go:40, 51, 110)
EngineSaves(r) ==
  /\ runs[r].pc \in {"select", "unknown", "persist"}
  /\ runs'[r] # runs[r]
  /\ disk' # disk

\* C1: at any instant at most one call of RunLoop is executing for the
\* configuration file.
C1_OneEngine == Cardinality({r \in RunIds : Executing(r)}) <= 1

\* C2: every SaveConfig of the engine writes the file as it stood, with only
\* the status and the learnings of the task the engine is working on changed:
\* no task created, edited or deleted, no field of the config set, and no
\* status written by a handler since the engine loaded, is lost or reverted.
C2_EngineSaveKeepsUpdates ==
  [][\A r \in RunIds :
       EngineSaves(r) =>
         /\ Len(disk'.tasks) = Len(disk.tasks)
         /\ [disk' EXCEPT !.tasks = <<>>] = [disk EXCEPT !.tasks = <<>>]
         /\ \A i \in 1..Len(disk.tasks) :
              \/ disk'.tasks[i] = disk.tasks[i]
              \/ /\ disk.tasks[i].id = CurTask(runs'[r]).id
                 /\ disk.tasks[i].status \in {StatusPending, StatusInProgress}
                 /\ [disk'.tasks[i] EXCEPT !.status = "", !.learnings = <<>>]
                      = [disk.tasks[i] EXCEPT !.status = "", !.learnings = <<>>]
    ]_vars

\* C3: start() called while loopRunning is true answers 409 and changes
\* nothing: no run state, no context, no goroutine, no event, no write.
C3_StartWhileRunning ==
  [][(handleLoopStart /\ loopRunning) =>
       /\ out' = Out("409 loop already running", <<>>)
       /\ UNCHANGED <<disk, loopRunning, loopCancel, runs, mu, hcfg, reqs>>
    ]_vars

\* start() was refused while a run was executing
C3_Witness ==
  /\ out = Out("409 loop already running", <<>>)
  /\ loopRunning
  /\ \E r \in RunIds : Executing(r)

\* C4: start() called while loopRunning is false, the config loaded: with no
\* pending task it answers 200 "completed"; otherwise with maxIterations < 1
\* it answers 400. Either way loopRunning stays false, no context is stored,
\* no goroutine is started and no event is broadcast.
C4_StartRefusedIdle ==
  [][(/\ handleLoopStart
      /\ ~loopRunning
      /\ out'.resp # "500 failed to load config"
      /\ (NextPendingTask(disk) = 0 \/ disk.maxIterations < 1)) =>
       /\ out' = Out(IF NextPendingTask(disk) = 0
                     THEN "200 completed: no pending tasks"
                     ELSE "400 maxIterations must be >= 1", <<>>)
       /\ ~loopRunning' /\ loopCancel' = loopCancel
       /\ UNCHANGED <<disk, runs, mu, hcfg, reqs>>
    ]_vars

\* start() answered "completed" although maxIterations was below 1: the
\* pending task is looked for first
C4_Witness ==
  /\ out = Out("200 completed: no pending tasks", <<>>)
  /\ disk.maxIterations < 1
  /\ NextPendingTask(disk) = 0
  /\ ~loopRunning

\* C5: stop() always answers 200 and broadcasts exactly one loop_stopped
\* event; when its critical section ends loopRunning is false and no context
\* is stored; with no context stored the critical section changes nothing, so
\* a second stop() leaves what the first one left.
C5_Stop ==
  [][/\ handleLoopStop =>
          /\ ~loopRunning' /\ loopCancel' = 0
          /\ out'.events = <<>>
          /\ UNCHANGED disk
          /\ loopCancel # 0 => runs'[loopCancel].cancelled
          /\ loopCancel = 0 => UNCHANGED <<loopRunning, loopCancel, runs>>
     /\ handleLoopStopBroadcast =>
          /\ out' = Out("200 stopped", <<Event(EventLoopStopped, "", NoData)>>)
          /\ UNCHANGED <<disk, loopRunning, loopCancel, runs>>
    ]_vars

\* stop() has answered after cancelling a run that is still executing
C5_Witness ==
  /\ out.resp = "200 stopped"
  /\ ~loopRunning /\ loopCancel = 0
  /\ \E r \in RunIds : Executing(r) /\ runs[r].cancelled

\* C6: skip() called while loopRunning is false answers 409 and changes
\* nothing: no task, no run state, no event.
C6_SkipWhileIdle ==
  [][(handleLoopSkip /\ ~loopRunning) =>
       /\ out' = Out("409 no loop running", <<>>)
       /\ UNCHANGED <<disk, loopRunning, loopCancel, runs, mu, hcfg, reqs>>
    ]_vars

\* skip() was refused with tasks still pending
C6_Witness ==
  /\ out = Out("409 no loop running", <<>>)
  /\ ~loopRunning
  /\ NextPendingTask(disk) # 0

\* C7: skip() with a run active and a task T persisted in_progress: exactly
\* one task_failed event for T is broadcast, and when the critical section
\* ends the file holds what skip() loaded with only T changed, to failed with
\* the note appended; the context has been cancelled, loopRunning is false and
\* no context is stored.
C7_SkipPersisted ==
  [][/\ (handleLoopSkip /\ loopRunning /\ FirstInProgress(disk) # 0 /\ mu') =>
          /\ hcfg' = SetTask(disk, FirstInProgress(disk),
                             SkipTask(disk.tasks[FirstInProgress(disk)]))
          /\ out'.events =
               <<Event(EventTaskFailed, disk.tasks[FirstInProgress(disk)].id,
                       Data("skipped", 0, FALSE))>>
     /\ \A c \in At("skip", "cancel") :
          (handleLoopSkipCancel /\ c.arg # "") =>
             /\ disk' = hcfg
             /\ loopCancel # 0 => runs'[loopCancel].cancelled
             /\ ~loopRunning' /\ loopCancel' = 0
    ]_vars

\* C8: skip() accepted: when the config it reloads holds a pending task,
\* skip() goes on to store a fresh context, set loopRunning and start the
\* goroutine before it answers; when it holds none, skip() answers having
\* started nothing and with the run state as it found it.
C8_SkipRestart ==
  [][/\ handleLoopSkipReload =>
          IF NextPendingTask(disk) # 0
          THEN /\ out' = NoOut
               /\ CopiesIn(Req("skip", "restart", 0, disk.provider), reqs')
                    = CopiesIn(Req("skip", "restart", 0, disk.provider), reqs) + 1
          ELSE /\ out' = Out("200 skipped", <<>>)
               /\ UNCHANGED <<loopRunning, loopCancel, runs>>
               /\ BagCardinality(reqs') = BagCardinality(reqs) - 1
     /\ handleLoopSkipRestart =>
          /\ loopRunning' /\ loopCancel' # 0
          /\ runs[loopCancel'].pc = "none"
          /\ runs'[loopCancel'].pc = "load"
          /\ out' = Out("200 skipped", <<>>)
    ]_vars

\* skip() has answered after starting a run for the tasks left
C8_Witness ==
  /\ out = Out("200 skipped", <<>>)
  /\ loopRunning /\ loopCancel # 0
  /\ runs[loopCancel].pc = "load"
  /\ \E i \in 1..Len(disk.tasks) :
       /\ disk.tasks[i].status = StatusFailed
       /\ Note("skipped_by_user", 0, "") \in {disk.tasks[i].learnings[k] :
                                               k \in 1..Len(disk.tasks[i].learnings)}

\* C9: skip() starts a run only in a state in which start() would start one:
\* loopRunning false, a task pending, maxIterations >= 1.
C9_SkipRestartValidated ==
  [][handleLoopSkipRestart => StartRefusal(loopRunning, TRUE, disk) = ""]_vars

\* C10: while a run is active the file holds at most one in_progress task.
C10_OneInProgress ==
  (loopRunning \/ \E r \in RunIds : Executing(r)) =>
     Cardinality(InProgressTasks(disk)) <= 1

\* the status changes the task lifecycle allows in the file
StatusMove(a, b) ==
  \/ a = b
  \/ a = StatusPending /\ b = StatusInProgress
  \/ a = StatusInProgress /\ b \in {StatusDone, StatusFailed}

IsPrefix(a, b) == Len(a) <= Len(b) /\ SubSeq(b, 1, Len(a)) = a

\* C11: the persisted status of a task only moves pending -> in_progress ->
\* done or failed: every write of the file leaves each task it keeps with its
\* status, or moves it one step along that line.
C11_StatusMonotone ==
  [][\A i \in 1..Len(disk.tasks), j \in 1..Len(disk'.tasks) :
       disk.tasks[i].id = disk'.tasks[j].id =>
         StatusMove(disk.tasks[i].status, disk'.tasks[j].status)]_vars

\* C12: the persisted learnings of a task are append-only: every write of
\* the file leaves each task it keeps with learnings that extend the ones it
\* had.
C12_LearningsAppendOnly ==
  [][\A i \in 1..Len(disk.tasks), j \in 1..Len(disk'.tasks) :
       disk.tasks[i].id = disk'.tasks[j].id =>
         IsPrefix(disk.tasks[i].learnings, disk'.tasks[j].learnings)]_vars

\* C13: once an Engine run that was not cancelled has returned without
\* error, every task in the file is done or failed.
C13_AllTerminal ==
  \A r \in RunIds :
    (runs[r].pc = "returned" /\ runs[r].err = "" /\ ~runs[r].cancelled) =>
      \A i \in 1..Len(disk.tasks) :
        disk.tasks[i].status \in {StatusDone, StatusFailed}

\* the gate results run r logged in its last step
GateEvents(run) ==
  {k \in 1..Len(run.ev) : run.ev[k].type = EventGateResult}

\* the Engine gives its current task the status st in this step
Marks(r, st) ==
  /\ runs[r].cur # 0
  /\ runs'[r].cfg # NoCfg
  /\ runs'[r].cur = runs[r].cur
  /\ CurTask(runs[r]).status # st
  /\ CurTask(runs'[r]).status = st

\* C14: the Engine marks a task done only in a step in which RunGates has
\* returned, after a provider call of the same iteration that succeeded,
\* with one result per configured gate and every result a pass; and the file
\* shows a task done only once the Engine has marked it.
C14_DoneOnlyIfAllGatesPass ==
  [][\A r \in RunIds :
       /\ Marks(r, StatusDone) =>
            /\ runs[r].pc = "gates"
            /\ runs[r].gateRuns >= 1
            /\ runs[r].calls = runs[r].iter
            /\ Cardinality(GateEvents(runs'[r])) = Len(runs[r].cfg.gates)
            /\ \A k \in GateEvents(runs'[r]) : runs'[r].ev[k].data.passed
       /\ \A i \in 1..Len(disk.tasks) :
            (/\ runs[r].pc # "none"
             /\ Len(disk'.tasks) = Len(disk.tasks)
             /\ disk.tasks[i].status # StatusDone
             /\ disk'.tasks[i].status = StatusDone) =>
               /\ runs[r].pc = "persist"
               /\ runs[r].cfg.tasks[i].status = StatusDone
    ]_vars

\* a task has been marked done after two gates passed
C14_Witness ==
  \E r \in RunIds :
    /\ runs[r].pc = "persist"
    /\ CurTask(runs[r]).status = StatusDone
    /\ Len(runs[r].cfg.gates) = 2
    /\ Cardinality(GateEvents(runs[r])) = 2

IterationEnds(r) ==
  /\ runs[r].pc \in {"provider", "gates"}
  /\ runs'[r] # runs[r]
  /\ runs'[r].cancelled = runs[r].cancelled

\* the provider call of run r has just returned an error
ProviderErrored(r) ==
  /\ runs[r].pc = "provider"
  /\ runs'[r].ev # <<>>
  /\ runs'[r].ev[1] = Event(EventLogMessage, "", Data("provider_error", 0, FALSE))

\* C16: with maxIterations = N >= 1 the Engine fails a task for its
\* iterations only at the end of iteration N, after exactly N provider
\* invocations, appending one note that cites N (gates not passed, or the
\* last provider error); an iteration before the N-th that fails leads to
\* the next one with the task unchanged; no more than N invocations are ever
\* made; and no gates are run in an iteration whose provider call errored.
C16_FailedAfterMaxIterations ==
  [][\A r \in RunIds :
       /\ runs'[r].calls <= runs'[r].cfg.maxIterations
       /\ (IterationEnds(r) /\ Marks(r, StatusFailed)) =>
            /\ runs[r].iter = runs[r].cfg.maxIterations
            /\ runs[r].calls = runs[r].cfg.maxIterations
            /\ CurTask(runs'[r]).learnings =
                 Append(CurTask(runs[r]).learnings,
                        Note(IF runs[r].pc = "provider" THEN "provider_error"
                             ELSE "gates_failed", runs[r].cfg.maxIterations, ""))
       /\ (/\ IterationEnds(r)
           /\ runs[r].iter < runs[r].cfg.maxIterations
           /\ runs'[r].pc \notin {"gates", "persist", "returned"}) =>
            /\ runs'[r].pc = "provider"
            /\ runs'[r].iter = runs[r].iter + 1
            /\ runs'[r].calls = runs[r].calls + 1
            /\ runs'[r].cfg = runs[r].cfg
       /\ (IterationEnds(r) /\ runs[r].iter < runs[r].cfg.maxIterations) =>
            ~Marks(r, StatusFailed)
       /\ (IterationEnds(r) /\ ProviderErrored(r)) =>
            /\ runs'[r].pc # "gates"
            /\ runs'[r].gateRuns \in {0, runs[r].gateRuns}
    ]_vars

\* a task has failed on its second iteration after the provider errored and
\* the gates did not pass, in either order
C16_Witness ==
  \E r \in RunIds :
    /\ runs[r].pc = "persist"
    /\ runs[r].cfg.maxIterations = 2
    /\ CurTask(runs[r]).status = StatusFailed
    /\ CurTask(runs[r]).learnings = <<Note("gates_failed", 2, "")>>

\* C17: a task whose effective provider is not registered is failed at once,
\* with a note naming that provider and the failure persisted, before any
\* provider invocation or gate run for it; the run does not return an error
\* but goes on to select the next pending task; and no provider is ever
\* invoked, nor gates run, for a task whose provider is not registered.
C17_UnknownProvider ==
  [][\A r \in RunIds :
       /\ runs'[r].pc \in {"provider", "gates"} => runs'[r].p \in Registered
       /\ (runs[r].pc = "unknown" /\ runs'[r] # runs[r]) =>
            /\ runs[r].p \notin Registered
            /\ runs[r].p = EffectiveProvider(CurTask(runs[r]), runs[r].provider)
            /\ runs[r].calls = 0 /\ runs[r].gateRuns = 0
            /\ CurTask(runs'[r]) =
                 [CurTask(runs[r]) EXCEPT
                    !.status = StatusFailed,
                    !.learnings = Append(@, Note("unknown_provider", 0, runs[r].p))]
            /\ disk' = runs'[r].cfg
            /\ runs'[r].pc = "select"
            /\ runs'[r].err = ""
       /\ (runs[r].pc = "select" /\ runs'[r].pc = "unknown") =>
            /\ runs'[r].calls = 0 /\ runs'[r].gateRuns = 0
            /\ CurTask(runs'[r]).status = StatusInProgress
    ]_vars

\* after failing task 1 for its unknown provider the run is invoking the
\* provider for task 2
C17_Witness ==
  \E r \in RunIds :
    /\ runs[r].pc = "provider"
    /\ runs[r].cur = 2
    /\ runs[r].cfg.tasks[1].status = StatusFailed
    /\ runs[r].cfg.tasks[1].learnings = <<Note("unknown_provider", 0, "bogus")>>
    /\ disk.tasks[1].status = StatusFailed

\* C18: whenever a provider is being invoked for a task, or its gates are
\* run, on any iteration, the provider in use is the one named by the task's
\* own override when that is not empty and the run's default otherwise.
C18_ProviderChoice ==
  \A r \in RunIds :
    runs[r].pc \in {"provider", "gates"} =>
      /\ CurTask(runs[r]).provider # "" => runs[r].p = CurTask(runs[r]).provider
      /\ CurTask(runs[r]).provider = "" => runs[r].p = runs[r].provider
      /\ runs[r].pc = "provider" =>
           runs[r].ev[Len(runs[r].ev)] =
             Event(EventProviderInvoked, "", Data(runs[r].p, 0, FALSE))

\* the second iteration of a task with an override invokes the override
C18_Witness ==
  \E r \in RunIds :
    /\ runs[r].pc = "provider"
    /\ runs[r].iter = 2
    /\ CurTask(runs[r]).provider = "fast"
    /\ runs[r].p = "fast"
    /\ runs[r].provider = "slow"

\* the runs with a provider invocation or a gate run in progress
Attempting == {r \in RunIds : runs[r].pc \in {"provider", "gates"}}

\* C19: at no instant are two provider invocations or gate runs in progress
\* at once, whatever the controller operations do.
C19_NoParallelAttempts == Cardinality(Attempting) <= 1

\* RunLoop of run r has returned (the goroutine may still be finishing)
Returned(r) == runs[r].pc \in {"returned", "unlocked", "dead"}

\* C20: when RunGates returns an error of the mechanism, RunLoop returns at
\* once with the error "running gates" and without writing the file; a
\* RunLoop that has returned attempts nothing more and writes nothing more,
\* so the tasks it left pending stay pending; the goroutine then clears
\* loopRunning and loopCancel and broadcasts one loop_error event carrying
\* the error, not loop_completed.
C20_GateMechanismError ==
  [][\A r \in RunIds :
       /\ GatesError(r) =>
            /\ runs'[r].pc = "returned"
            /\ runs'[r].err = "running gates"
            /\ runs'[r].ev = <<>>
            /\ UNCHANGED disk
       /\ Returned(r) =>
            /\ Returned(r)'
            /\ runs'[r].err \in {runs[r].err, ""}
            /\ runs'[r] # runs[r] /\ runs'[r].cancelled = runs[r].cancelled
                 => UNCHANGED disk
       /\ (runs[r].pc = "returned" /\ runs'[r].pc = "unlocked") =>
            /\ ~loopRunning' /\ loopCancel' = 0
            /\ runs'[r].err = runs[r].err
       /\ (runs[r].pc = "unlocked" /\ runs'[r].pc = "dead" /\ runs[r].err # "") =>
            runs'[r].ev = <<Event(EventLoopError, "", Data(runs[r].err, 0, FALSE))>>
    ]_vars

\* a run ended by an error of the gate mechanism has broadcast loop_error,
\* leaving the controller idle and a task pending
C20_Witness ==
  \E r \in RunIds :
    /\ runs[r].pc = "dead"
    /\ runs[r].ev = <<Event(EventLoopError, "", Data("running gates", 0, FALSE))>>
    /\ ~loopRunning /\ loopCancel = 0
    /\ NextPendingTask(disk) # 0

\* ---------------------------------------------------- background completion
TerminalTypes == {EventLoopError, EventLoopCompleted}

TerminalEvents(evs) == {i \in 1..Len(evs) : evs[i].type \in TerminalTypes}

\* C21: for every run spawned by start() or skip(): once RunLoop has
\* returned, the goroutine takes the lock, sets loopRunning to false and
\* loopCancel to nil, broadcasting nothing in that step; only after that it
\* broadcasts one event, loop_error carrying the error if RunLoop returned
\* one and loop_completed otherwise, and then it does nothing more; no other
\* step of a run and no request handler broadcasts a terminal event.
C21_BackgroundCompletion ==
  [][/\ \A r \in RunIds :
         /\ (runs[r].pc = "returned" /\ runs'[r] # runs[r]
               /\ runs'[r].cancelled = runs[r].cancelled) =>
              /\ ~mu
              /\ ~loopRunning' /\ loopCancel' = 0
              /\ runs'[r].pc = "unlocked"
              /\ runs'[r].err = runs[r].err
              /\ runs'[r].ev = <<>>
         /\ (runs[r].pc = "unlocked" /\ runs'[r] # runs[r]
               /\ runs'[r].cancelled = runs[r].cancelled) =>
              /\ runs'[r].pc = "dead"
              /\ runs'[r].ev =
                   << IF runs[r].err # ""
                      THEN Event(EventLoopError, "", Data(runs[r].err, 0, FALSE))
                      ELSE Event(EventLoopCompleted, "", NoData) >>
              /\ UNCHANGED <<loopRunning, loopCancel>>
         /\ runs[r].pc = "dead" => runs'[r].pc = "dead" /\ runs'[r].ev = runs[r].ev
         /\ (runs'[r] # runs[r] /\ TerminalEvents(runs'[r].ev) # {}) =>
              runs[r].pc = "unlocked"
     /\ TerminalEvents(out'.events) = {}
    ]_vars

\* one run has ended with loop_error and another with loop_completed
C21_Witness ==
  \E r, q \in RunIds :
    /\ runs[r].pc = "dead" /\ runs[q].pc = "dead"
    /\ runs[r].ev = <<Event(EventLoopCompleted, "", NoData)>>
    /\ Len(runs[q].ev) = 1 /\ runs[q].ev[1].type = EventLoopError
    /\ runs[q].ev[1].data.text # ""

\* ------------------------------------------------------ the lock and the Engine
\* the handlers that hold the lock between two steps: the task and config
\* handlers from LoadConfig to SaveConfig, skip() up to its Unlock
LockHolders == {c \in BagToSet(reqs) : c.pc \in {"save", "cancel"}}

\* the next step of the handler that holds the lock
HolderStep ==
  \/ handleCreateTaskSave
  \/ handleUpdateTaskSave
  \/ handleDeleteTaskSave
  \/ handleUpdateConfigSave
  \/ handleLoopSkipSave
  \/ handleLoopSkipCancel

\* a provider invocation or a gate execution of run r is in progress
Blocking(r) == runs[r].pc \in {"provider", "gates"}

\* C22: RunLoop never holds the lock of the server: whenever the lock is
\* held, its holder is a request handler between its LoadConfig and its
\* Unlock, and that handler's next step is possible at once, whatever the
\* Engine is doing; whenever the lock is free, status(), stop(), skip(),
\* start() and the task and config handlers can take it and run, also while
\* a provider invocation or a gate execution is in progress.
C22_LockNeverHeldByEngine ==
  /\ mu => LockHolders # {} /\ ENABLED HolderStep
  /\ (~mu /\ Fresh) =>
       /\ ENABLED handleLoopStatus
       /\ ENABLED handleLoopStop
       /\ ENABLED handleLoopSkip
       /\ ENABLED handleCreateTask
       /\ HasFreshRun => ENABLED handleLoopStart
       /\ FreshCrud =>
            /\ ENABLED handleUpdateTask
            /\ ENABLED handleDeleteTask
            /\ ENABLED handleUpdateConfig

\* status() has answered while a provider invocation or a gate execution
\* was in progress
C22_Witness ==
  /\ \E r \in RunIds : Blocking(r)
  /\ out.resp = "200 running"

\* ----------------------------------------------------- the hub on its own
\* Subscribe, Unsubscribe and Broadcast called from any number of goroutines
\* (events.go:61-89), and the client of a channel reading from it
\* (server.go:113-118). Subscribe and Unsubscribe hold the write lock of
\* EventHub.mu, so they run when no Broadcast holds the read lock; calls of
\* Broadcast overlap with each other.
MaxBroadcasts == 3   \* calls of Broadcast
MaxInFlight == 2     \* of them at the same time
MaxRecv == 2         \* events a client reads from its channel

\* how many events the first subscriber already holds unread when the
\* behaviour begins
Prefills == {0, Capacity - 1}

\* the events broadcast before the behaviour begins are numbered downwards
\* from 0
Backlog(k) == [i \in 1..k |-> i - k]

InitHub ==
  /\ disk = InitConfig(InitMaxIterations, "")
  /\ loopRunning = FALSE
  /\ loopCancel = 0
  /\ mu = FALSE
  /\ hcfg = NoCfg
  /\ reqs = EmptyBag
  /\ issued = [all |-> 0, crud |-> 0]
  /\ runs = [r \in RunIds |-> NoRun]
  /\ out = NoOut
  /\ faulty = FALSE
  /\ NoCalls
  /\ \E k \in Prefills :
       IF k = 0 THEN NewEventHub
       ELSE /\ subscribers = {1}
            /\ chans = [c \in ChanIds |->
                          IF c = 1 THEN [MakeChan EXCEPT !.buf = Backlog(k)]
                          ELSE NoChan]
            /\ bcasts = {}
            /\ sent = 0
            /\ hist = [c \in ChanIds |->
                         IF c = 1 THEN [NoHist EXCEPT !.got = Backlog(k), !.subAt = -k]
                         ELSE NoHist]
            /\ overlap = {}
            /\ panicked = FALSE
            /\ hubOp = HubOp("", 0, 0, FALSE)

\* events.go:61-67
Subscribe ==
  /\ bcasts = {}
  /\ \E c \in ChanIds :
       /\ ~chans[c].made
       /\ \A x \in 1..(c-1) : chans[x].made
       /\ chans' = [chans EXCEPT ![c] = MakeChan]
       /\ subscribers' = subscribers \cup {c}
       /\ hist' = [hist EXCEPT ![c].subAt = sent]
       /\ hubOp' = HubOp("subscribe", c, 0, TRUE)
  /\ UNCHANGED <<bcasts, sent, overlap, panicked, srvVars, fnVars>>

\* an Unsubscribe that closes whatever it is handed
ClosesAlways(subs, c) == TRUE

\* events.go:72: if _, ok := h.subscribers[ch]; ok
Closes(subs, c) == c \in subs

\* events.go:69-76
Unsubscribe(c) ==
  /\ chans[c].made
  /\ bcasts = {}
  /\ IF Closes(subscribers, c)
     THEN /\ subscribers' = subscribers \ {c}
          /\ chans' = [chans EXCEPT ![c].closed = TRUE]
          /\ panicked' = (panicked \/ chans[c].closed)
     ELSE UNCHANGED <<subscribers, chans, panicked>>
  /\ hubOp' = HubOp("unsubscribe", c, 0, Closes(subscribers, c))
  /\ UNCHANGED <<bcasts, sent, hist, overlap, srvVars, fnVars>>

\* events.go:80-83: the read lock is taken; the channels registered now
\* are the ones the loop visits
Broadcast ==
  /\ sent < MaxBroadcasts
  /\ Cardinality(bcasts) < MaxInFlight
  /\ sent' = sent + 1
  /\ bcasts' = bcasts \cup {[ev |-> sent + 1, todo |-> subscribers]}
  /\ overlap' = overlap \cup {<<b.ev, sent + 1>> : b \in bcasts}
  /\ hubOp' = HubOp("broadcast", 0, sent + 1, TRUE)
  /\ UNCHANGED <<subscribers, chans, hist, panicked, srvVars, fnVars>>

\* a send that enqueues the event twice
TrySendTwice(buf, e) == buf \o <<e, e>>

\* a send that waits for room instead of giving up
TrySendUnbounded(buf, e) == Append(buf, e)

\* events.go:84-87: select { case ch <- event: default: }
TrySend(buf, e) == IF Len(buf) < Capacity THEN Append(buf, e) ELSE buf

\* events.go:83-88: one turn of the loop of Broadcast b, for channel c (a
\* map is ranged over in any order)
BroadcastSend(b, c) ==
  /\ b \in bcasts
  /\ c \in b.todo
  /\ bcasts' = (bcasts \ {b}) \cup {[b EXCEPT !.todo = @ \ {c}]}
  /\ IF chans[c].closed
     THEN /\ panicked' = TRUE
          /\ UNCHANGED <<chans, hist>>
     ELSE /\ chans' = [chans EXCEPT ![c].buf = TrySend(@, b.ev)]
          /\ hist' = [hist EXCEPT
               ![c].got = @ \o SubSeq(chans'[c].buf, Len(chans[c].buf) + 1,
                                      Len(chans'[c].buf)),
               ![c].dropped = IF chans'[c].buf = chans[c].buf
                              THEN @ \cup {b.ev} ELSE @]
          /\ UNCHANGED panicked
  /\ hubOp' = HubOp("send", c, b.ev, chans'[c].buf # chans[c].buf)
  /\ UNCHANGED <<subscribers, sent, overlap, srvVars, fnVars>>

\* events.go:82: the deferred RUnlock; Broadcast returns
BroadcastReturn(b) ==
  /\ b \in bcasts
  /\ b.todo = {}
  /\ bcasts' = bcasts \ {b}
  /\ hubOp' = HubOp("broadcast_return", 0, b.ev, TRUE)
  /\ UNCHANGED <<subscribers, chans, sent, hist, overlap, panicked, srvVars, fnVars>>

\* server.go:113-118: the client of channel c receives: the oldest event
\* queued, or !ok from a closed and empty channel
Receive(c) ==
  /\ chans[c].made
  /\ IF chans[c].buf # <<>>
     THEN /\ chans[c].nread < MaxRecv
          /\ chans' = [chans EXCEPT ![c].buf = Tail(@), ![c].nread = @ + 1]
          /\ hubOp' = HubOp("receive", c, Head(chans[c].buf), TRUE)
     ELSE /\ chans[c].closed
          /\ UNCHANGED chans
          /\ hubOp' = HubOp("receive", c, 0, FALSE)
  /\ UNCHANGED <<subscribers, bcasts, sent, hist, overlap, panicked, srvVars, fnVars>>

NextHub ==
  \/ Subscribe
  \/ \E c \in ChanIds : Unsubscribe(c)
  \/ Broadcast
  \/ \E b \in bcasts, c \in ChanIds : BroadcastSend(b, c)
  \/ \E b \in bcasts : BroadcastReturn(b)
  \/ \E c \in ChanIds : Receive(c)

SpecHub == InitHub /\ [][NextHub]_vars

\* ------------------------------------------------------------ hub delivery
Range(q) == {q[i] : i \in 1..Len(q)}

\* the events whose call of Broadcast has not yet tried channel c
Pending(c) == {b.ev : b \in {x \in bcasts : c \in x.todo}}

\* what channel c has been given: nothing twice, nothing broadcast before c
\* was registered, its client reads it in the order it was given, and, as
\* long as c is registered and nothing was dropped for it, every event
\* broadcast since it was registered
Delivered(c) ==
  /\ Cardinality(Range(hist[c].got)) = Len(hist[c].got)
  /\ \A e \in Range(hist[c].got) : e > hist[c].subAt
  /\ chans[c].buf = SubSeq(hist[c].got, chans[c].nread + 1, Len(hist[c].got))
  /\ (c \in subscribers /\ hist[c].dropped = {}) =>
       \A e \in (hist[c].subAt + 1)..sent :
         e \in Range(hist[c].got) \/ e \in Pending(c)

\* the step puts the event of hubOp' at the end of what c was given
Gives(c) == hist'[c].got # hist[c].got

\* channel c was given event e1 before event e2
GivenBefore(c, e1, e2) ==
  \E i, j \in 1..Len(hist[c].got) :
    i < j /\ hist[c].got[i] = e1 /\ hist[c].got[j] = e2

\* C23 as stated: every subscriber that stays registered and always has
\* room receives every event exactly once, none twice, none broadcast before
\* it subscribed, and there is one order of the broadcasts, the broadcast
\* order, in which every subscriber receives them: two events that two
\* subscribers both receive reach them in the same order.
C23_DeliveryInOneOrder ==
  /\ \A c \in ChanIds : Delivered(c)
  /\ \A c, d \in ChanIds :
       c # d =>
         \A e1, e2 \in Range(hist[c].got) \cap Range(hist[d].got) :
           GivenBefore(c, e1, e2) => GivenBefore(d, e1, e2)

\* C23, amended: every subscriber that stays registered and always has room
\* receives every event exactly once, none twice, none broadcast before it
\* subscribed; it receives two events in the order of their calls of
\* Broadcast when the first call returned before the second began, while two
\* calls that overlap may reach different subscribers in different orders.
C23_HubDelivery ==
  [][\A c \in ChanIds :
       /\ Delivered(c)'
       /\ Gives(c) =>
            /\ hist'[c].got = Append(hist[c].got, hubOp'.ev)
            /\ \A e \in Range(hist[c].got) :
                 e < hubOp'.ev \/ <<hubOp'.ev, e>> \in overlap
    ]_vars

\* two subscribers have been given the same two events, broadcast by
\* overlapping calls, in opposite orders
C23_Witness ==
  \E c, d \in subscribers :
    /\ hist[c].dropped = {} /\ hist[d].dropped = {}
    /\ Len(hist[c].got) >= 2 /\ Len(hist[d].got) >= 2
    /\ SubSeq(hist[c].got, Len(hist[c].got) - 1, Len(hist[c].got)) = <<1, 2>>
    /\ SubSeq(hist[d].got, Len(hist[d].got) - 1, Len(hist[d].got)) = <<2, 1>>
    /\ bcasts = {}

\* --------------------------------------------------- non-blocking broadcast
\* the next turn of every call of Broadcast in progress can be taken at
\* once, whatever the channels hold
NeverWaits ==
  \A b \in bcasts :
    IF b.todo = {} THEN ENABLED BroadcastReturn(b)
    ELSE \A c \in b.todo : ENABLED BroadcastSend(b, c)

\* every event broadcast since c was registered is in what c was given, or
\* was dropped for c, or is still to be tried on c
Accounted(c) ==
  \A e \in (hist[c].subAt + 1)..sent :
    e \in Range(hist[c].got) \/ e \in hist[c].dropped \/ e \in Pending(c)

\* C24: Broadcast never waits for a subscriber; no channel ever holds more
\* than 64 events; a turn of the loop of Broadcast for a channel that holds
\* 64 events drops the event for that channel and leaves the channel as it
\* is, a turn for a channel with room appends the event to it, and no turn
\* touches another channel; so every registered channel is given every event
\* except those that found it full.
C24_NonBlockingBroadcast ==
  /\ [](/\ NeverWaits
        /\ \A c \in ChanIds : Len(chans[c].buf) <= Capacity
        /\ \A c \in subscribers : Accounted(c))
  /\ [][\A b \in bcasts, c \in ChanIds :
          BroadcastSend(b, c) =>
            /\ IF Len(chans[c].buf) = Capacity
               THEN /\ chans'[c] = chans[c]
                    /\ hist'[c].got = hist[c].got
                    /\ hist'[c].dropped = hist[c].dropped \cup {b.ev}
               ELSE /\ chans'[c].buf = Append(chans[c].buf, b.ev)
                    /\ hist'[c].got = Append(hist[c].got, b.ev)
                    /\ hist'[c].dropped = hist[c].dropped
            /\ \A d \in ChanIds \ {c} : chans'[d] = chans[d] /\ hist'[d] = hist[d]
            /\ ~panicked'
      ]_vars

\* a broadcast has returned whose event was dropped for a subscriber holding
\* 64 unread events and given to another subscriber
C24_Witness ==
  \E c, d \in subscribers :
    /\ Len(chans[c].buf) = Capacity
    /\ hubOp.op = "broadcast_return"
    /\ hubOp.ev \in hist[c].dropped
    /\ hubOp.ev \in Range(chans[d].buf)

\* ------------------------------------------------------------- unsubscribe
\* C25: Unsubscribe(c) of a registered channel deregisters and closes it,
\* making the subscriber set one smaller, as Subscribe made it one larger;
\* Unsubscribe of a channel that is no longer registered changes nothing; a
\* closed channel is never registered, never among the channels a Broadcast
\* in progress has still to try, is given nothing more and stays closed;
\* under every interleaving no send on a closed channel and no second close
\* happens.
C25_Unsubscribe ==
  [][/\ ~panicked'
     /\ \A c \in ChanIds :
          /\ Unsubscribe(c) =>
               /\ c \notin subscribers' /\ chans'[c].closed
               /\ IF c \in subscribers
                  THEN /\ Cardinality(subscribers') = Cardinality(subscribers) - 1
                       /\ ~chans[c].closed
                  ELSE UNCHANGED <<subscribers, chans, bcasts, hist>>
          /\ chans[c].closed =>
               /\ chans'[c].closed
               /\ hist'[c] = hist[c]
               /\ Len(chans'[c].buf) <= Len(chans[c].buf)
          /\ chans'[c].closed =>
               /\ c \notin subscribers'
               /\ \A b \in bcasts' : c \notin b.todo
     /\ Subscribe => Cardinality(subscribers') = Cardinality(subscribers) + 1
    ]_vars

\* a channel was unsubscribed a second time, after a broadcast that followed
\* its first unsubscribe has returned, and its client has found it closed
C25_Witness ==
  \E c \in ChanIds :
    /\ chans[c].closed
    /\ hubOp = HubOp("unsubscribe", c, 0, FALSE)
    /\ sent > hist[c].subAt + Len(hist[c].got)
    /\ bcasts = {}

\* ---------------------------------------------------------- the translator
\* EventLogger.Log on the text of a message: fmt.Sprintf, then
\* parseLogMessage. A text is a string; "--" stands for the rule of two
\* box-drawing characters, "v" and "x" for the check mark and the cross.
Drop(s, n) == SubSeq(s, n + 1, Len(s))
HasPrefix(s, p) == Len(s) >= Len(p) /\ SubSeq(s, 1, Len(p)) = p
HasSuffix(s, x) == Len(s) >= Len(x) /\ SubSeq(s, Len(s) - Len(x) + 1, Len(s)) = x
TrimPrefix(s, p) == IF HasPrefix(s, p) THEN Drop(s, Len(p)) ELSE s
TrimSuffix(s, x) == IF HasSuffix(s, x) THEN SubSeq(s, 1, Len(s) - Len(x)) ELSE s

\* s without the spaces it begins with
RECURSIVE SkipSpaces(_)
SkipSpaces(s) == IF s # "" /\ Head(s) = " " THEN SkipSpaces(Tail(s)) ELSE s

\* the characters s begins with, up to the first space
RECURSIVE ScanWord(_)
ScanWord(s) ==
  IF s = "" \/ Head(s) = " " THEN "" ELSE Head(s) \o ScanWord(Tail(s))

\* fmt.Sscanf(msg, "-- Iteration %d/%d -- Task #%s", &iter, &maxIter,
\* &taskID) on texts that space their words as the format does: %d and %s
\* skip leading spaces, %s reads up to the next space; n counts the verbs
\* filled
Sscanf(msg) ==
  LET none == [n |-> 0, iter |-> 0, maxIter |-> 0, taskID |-> ""]
      r1 == SkipSpaces(Drop(msg, Len("-- Iteration ")))
      d1 == ScanDigits(r1)
      r2 == Drop(r1, Len(d1))
      r3 == SkipSpaces(Drop(r2, 1))
      d2 == ScanDigits(r3)
      r4 == Drop(r3, Len(d2))
      r5 == SkipSpaces(Drop(r4, Len(" -- Task #")))
      w == ScanWord(r5)
  IN IF ~HasPrefix(msg, "-- Iteration ") \/ d1 = "" THEN none
     ELSE IF ~HasPrefix(r2, "/") \/ d2 = ""
     THEN [none EXCEPT !.n = 1, !.iter = ParseInt(d1, 0)]
     ELSE IF ~HasPrefix(r4, " -- Task #") \/ w = ""
     THEN [none EXCEPT !.n = 2, !.iter = ParseInt(d1, 0), !.maxIter = ParseInt(d2, 0)]
     ELSE [n |-> 3, iter |-> ParseInt(d1, 0), maxIter |-> ParseInt(d2, 0),
           taskID |-> w]

\* a message: the call of Logger.Log that RunLoop makes, with its arguments
LogCall(kind, id, i, max, s) == [kind |-> kind, id |-> id, i |-> i, max |-> max, s |-> s]

\* fmt.Sprintf(format, args...) of each call of Log in RunLoop
Sprintf(m) ==
  CASE m.kind = "starting" -> "Starting with default provider: " \o m.s
    [] m.kind = "unknown_provider" ->
         "Task #" \o m.id \o ": failed (unknown provider: " \o m.s \o ")"
    [] m.kind = "iteration" ->
         "-- Iteration " \o FormatInt(m.i) \o "/" \o FormatInt(m.max)
           \o " -- Task #" \o m.id \o ": " \o m.s
    [] m.kind = "invoking" -> "Invoking " \o m.s \o "..."
    [] m.kind = "provider_error" -> "Provider error: " \o m.s
    [] m.kind = "provider_finished" -> "Provider finished"
    [] m.kind = "gate_pass" -> "Running gate: " \o m.s \o "  v"
    [] m.kind = "gate_fail" -> "Running gate: " \o m.s \o "  x"
    [] m.kind = "task_done" -> "Task #" \o m.id \o ": done"
    [] m.kind = "task_failed_max" ->
         "Task #" \o m.id \o ": failed (max iterations reached)"
    [] m.kind = "summary" -> "-- Summary --"
    [] m.kind = "counts" ->
         FormatInt(m.i) \o "/" \o FormatInt(m.max) \o " tasks done, 0 failed"

\* the Data map of an event; Nil is the map not set
Nil == [nil |-> TRUE]
IterationData(iter, maxIter, title) ==
  [iteration |-> iter, maxIterations |-> maxIter, title |-> title]

\* events.go:112-194
parseLogMessage(msg) ==
  LET scan == Sscanf(msg)
      taskID == TrimSuffix(scan.taskID, ":")
      prefix == "-- Iteration " \o FormatInt(scan.iter) \o "/"
                  \o FormatInt(scan.maxIter) \o " -- Task #" \o taskID \o ": "
  IN IF scan.n = 3
     THEN Event(EventIterationStarted, taskID,
                IterationData(scan.iter, scan.maxIter, TrimPrefix(msg, prefix)))
     ELSE IF HasPrefix(msg, "Invoking ") /\ HasSuffix(msg, "...")
     THEN Event(EventProviderInvoked, "",
                [provider |-> TrimSuffix(TrimPrefix(msg, "Invoking "), "...")])
     ELSE IF msg = "Provider finished"
     THEN Event(EventProviderFinished, "", Nil)
     ELSE IF HasPrefix(msg, "Running gate: ") /\ HasSuffix(msg, "  v")
     THEN Event(EventGateResult, "",
                [command |-> TrimSuffix(TrimPrefix(msg, "Running gate: "), "  v"),
                 passed |-> TRUE])
     ELSE IF HasPrefix(msg, "Running gate: ") /\ HasSuffix(msg, "  x")
     THEN Event(EventGateResult, "",
                [command |-> TrimSuffix(TrimPrefix(msg, "Running gate: "), "  x"),
                 passed |-> FALSE])
     ELSE IF HasPrefix(msg, "Task #") /\ HasSuffix(msg, ": done")
     THEN Event(EventTaskDone, TrimSuffix(TrimPrefix(msg, "Task #"), ": done"), Nil)
     ELSE IF HasPrefix(msg, "Task #")
               /\ HasSuffix(msg, ": failed (max iterations reached)")
     THEN Event(EventTaskFailed,
                TrimSuffix(TrimPrefix(msg, "Task #"),
                           ": failed (max iterations reached)"), Nil)
     ELSE IF HasPrefix(msg, "Starting with default provider: ")
     THEN Event(EventLoopStarted, "",
                [provider |-> TrimPrefix(msg, "Starting with default provider: ")])
     ELSE IF HasPrefix(msg, "Starting with provider: ")
     THEN Event(EventLoopStarted, "",
                [provider |-> TrimPrefix(msg, "Starting with provider: ")])
     ELSE Event(EventLogMessage, "", [message |-> msg])

\* the arguments RunLoop may hand to Log: ids, titles, provider names and
\* gate commands of a config file, which LoadConfig does not validate
MaxLogIterations == 11
LogIds == {"1", "42", "abc", "task 1"}
LogTitles == {"Add login endpoint", "", "v1: done"}
LogNames == {"claude", "my agent...", ""}
LogCommands == {"go test ./...", "make lint  v", "true"}
LogErrors == {"context canceled", "exit status 1: done"}

LogCalls ==
  {LogCall("iteration", id, i, max, t) :
     id \in LogIds, i \in {1, MaxLogIterations - 1}, max \in {MaxLogIterations},
     t \in LogTitles}
  \cup {LogCall(k, "", 0, 0, p) : k \in {"starting", "invoking"}, p \in LogNames}
  \cup {LogCall("unknown_provider", id, 0, 0, p) : id \in LogIds, p \in LogNames}
  \cup {LogCall("provider_error", "", 0, 0, e) : e \in LogErrors}
  \cup {LogCall(k, "", 0, 0, "") : k \in {"provider_finished", "summary"}}
  \cup {LogCall(k, "", 0, 0, c) : k \in {"gate_pass", "gate_fail"}, c \in LogCommands}
  \cup {LogCall(k, id, 0, 0, "") : k \in {"task_done", "task_failed_max"}, id \in LogIds}
  \cup {LogCall("counts", "", i, max, "") : i \in 0..2, max \in 1..2}

\* the message is formatted
InitLog ==
  /\ disk = InitConfig(InitMaxIterations, "")
  /\ loopRunning = FALSE
  /\ loopCancel = 0
  /\ mu = FALSE
  /\ hcfg = NoCfg
  /\ reqs = EmptyBag
  /\ issued = [all |-> 0, crud |-> 0]
  /\ runs = [r \in RunIds |-> NoRun]
  /\ out = NoOut
  /\ faulty = FALSE
  /\ NewEventHub
  /\ alloc = NoCall
  /\ \E m \in LogCalls : logged = [in |-> m, text |-> Sprintf(m), out |-> Nil]

\* events.go:103-110: the text is translated
EventLoggerLog ==
  /\ logged.out = Nil
  /\ logged' = [logged EXCEPT !.out = parseLogMessage(logged.text)]
  /\ UNCHANGED <<srvVars, hubVars, alloc>>

NextLog == EventLoggerLog

SpecLog == InitLog /\ [][NextLog]_vars

\* the event that corresponds to message m
Corresponds(m, e) ==
  CASE m.kind = "starting" ->
         e.type = EventLoopStarted /\ e.data = [provider |-> m.s]
    [] m.kind = "iteration" ->
         /\ e.type = EventIterationStarted
         /\ e.taskId = m.id
         /\ e.data = IterationData(m.i, m.max, m.s)
    [] m.kind = "invoking" ->
         e.type = EventProviderInvoked /\ e.data = [provider |-> m.s]
    [] m.kind = "provider_finished" -> e.type = EventProviderFinished
    [] m.kind = "gate_pass" ->
         e.type = EventGateResult /\ e.data = [command |-> m.s, passed |-> TRUE]
    [] m.kind = "gate_fail" ->
         e.type = EventGateResult /\ e.data = [command |-> m.s, passed |-> FALSE]
    [] m.kind = "task_done" -> e.type = EventTaskDone /\ e.taskId = m.id
    [] m.kind = "task_failed_max" -> e.type = EventTaskFailed /\ e.taskId = m.id
    [] OTHER -> e.type = EventLogMessage /\ e.data = [message |-> Sprintf(m)]

\* C26: the event made of a message depends on its text alone; each message
\* RunLoop emits in a recognized shape (starting with provider, iteration
\* i/max with task id and title, invoking a provider, provider finished, gate
\* result with command and outcome, task done, task failed after the last
\* iteration) becomes the typed event with those fields, and every other
\* message becomes a log_message event carrying its text.
C26_Translator ==
  logged.out # Nil =>
    /\ logged.out = parseLogMessage(logged.text)
    /\ Corresponds(logged.in, logged.out)

\* ------------------------------------------------------ fresh-id allocation
\* nextTaskID on its own, on the task lists of a config file: ids that are
\* numbers, with and without leading zeros or a sign, and ids that are not
MaxAllocTasks == 3
AllocIds == {"1", "2", "3", "5", "10", "007", "abc", "1a", "+7", "-3"}
AllocLists == UNION {[1..n -> AllocIds] : n \in 0..MaxAllocTasks}

InitAlloc ==
  /\ disk = InitConfig(InitMaxIterations, "")
  /\ loopRunning = FALSE
  /\ loopCancel = 0
  /\ mu = FALSE
  /\ hcfg = NoCfg
  /\ reqs = EmptyBag
  /\ issued = [all |-> 0, crud |-> 0]
  /\ runs = [r \in RunIds |-> NoRun]
  /\ out = NoOut
  /\ faulty = FALSE
  /\ NewEventHub
  /\ logged = NoCall
  /\ \E l \in AllocLists : alloc = [in |-> l, out |-> ""]

\* server.go:166-167: the id of the task to create
Allocate ==
  /\ alloc.out = ""
  /\ alloc' = [alloc EXCEPT
       !.out = nextTaskID([i \in 1..Len(alloc.in) |-> Task(alloc.in[i], "t", "")])]
  /\ UNCHANGED <<srvVars, hubVars, logged>>

NextAlloc == Allocate

SpecAlloc == InitAlloc /\ [][NextAlloc]_vars

\* an id made of decimal digits only
PurelyNumeric(id) == id # "" /\ ScanDigits(id) = id

\* the numbers the purely numeric ids of a list denote
NumericIDs(ids) == {ParseInt(ids[i], 0) : i \in {j \in 1..Len(ids) : PurelyNumeric(ids[j])}}

Maximum(S) == CHOOSE n \in S : \A m \in S : m <= n

\* the four lists named in the claim
Examples ==
  /\ alloc.in = <<>> => alloc.out = "1"
  /\ alloc.in = <<"1", "2", "3">> => alloc.out = "4"
  /\ alloc.in = <<"1", "5">> => alloc.out = "6"
  /\ alloc.in = <<"abc", "2">> => alloc.out = "3"

\* C27 as stated: the id allocated is the decimal string of the maximum of
\* the purely numeric ids of the list plus one, every other id being
\* ignored, and "1" when no id is purely numeric: [] -> "1", [1,2,3] -> "4",
\* [1,5] -> "6", [abc,2] -> "3".
C27_FreshIDPurelyNumeric ==
  alloc.out # "" =>
    /\ alloc.out = IF NumericIDs(alloc.in) = {} THEN "1"
                   ELSE FormatInt(Maximum(NumericIDs(alloc.in)) + 1)
    /\ Examples

\* an id that is a decimal number: digits, after a sign or not
Signed(id) == id # "" /\ Head(id) \in {"+", "-"}
DecimalNumber(id) ==
  IF Signed(id) THEN PurelyNumeric(Tail(id)) ELSE PurelyNumeric(id)

\* the positive numbers the ids of a list denote
PositiveIDs(ids) ==
  {ParseInt(IF Signed(ids[i]) THEN Tail(ids[i]) ELSE ids[i], 0) :
     i \in {j \in 1..Len(ids) : DecimalNumber(ids[j]) /\ Head(ids[j]) # "-"}} \ {0}

\* C27, amended: the id allocated is the decimal string of the maximum of
\* the positive numbers among the ids of the list plus one, where an id is a
\* number when it is made of decimal digits after an optional sign ("+7"
\* counts as 7, "007" as 7), every other id being ignored, and "1" when no id
\* is a positive number: [] -> "1", [1,2,3] -> "4", [1,5] -> "6",
\* [abc,2] -> "3".
C27_FreshID ==
  alloc.out # "" =>
    /\ alloc.out = IF PositiveIDs(alloc.in) = {} THEN "1"
                   ELSE FormatInt(Maximum(PositiveIDs(alloc.in)) + 1)
    /\ Examples

\* an id was allocated for a list whose largest number is written with a
\* sign
C27_Witness ==
  /\ alloc.in = <<"abc", "2", "+7">>
  /\ alloc.out = "8"

\* ------------------------------------------- task and config requests alone
\* the task and config handlers beside one run that start() has spawned, with
\* no further control command: room for MaxCrudAlone requests, all of which
\* may change the file
MaxCrudAlone == 3

InitCrud ==
  /\ disk = InitConfig(InitMaxIterations, "")
  /\ loopRunning = TRUE
  /\ loopCancel = 1
  /\ mu = FALSE
  /\ hcfg = NoCfg
  /\ reqs = EmptyBag
  /\ issued = [all |-> MaxReq - MaxCrudAlone, crud |-> MaxCrud - MaxCrudAlone]
  /\ runs = [r \in RunIds |->
               IF r = 1 THEN [NoRun EXCEPT !.pc = "load", !.provider = disk.provider]
               ELSE NoRun]
  /\ out = NoOut
  /\ faulty = FALSE
  /\ NoCalls
  /\ NewEventHub

NextCrud ==
  \/ \E r \in RunIds : EngineLoad(r)
  \/ \E r \in RunIds : EngineSelect(r)
  \/ \E r \in RunIds : EngineUnknownProvider(r)
  \/ \E r \in RunIds : EngineProviderReturn(r)
  \/ \E r \in RunIds : EngineGatesReturn(r)
  \/ \E r \in RunIds : EnginePersist(r)
  \/ \E r \in RunIds : EngineComplete(r)
  \/ \E r \in RunIds : EngineTerminal(r)
  \/ handleCreateTask
  \/ handleCreateTaskSave
  \/ handleUpdateTask
  \/ handleUpdateTaskSave
  \/ handleDeleteTask
  \/ handleDeleteTaskSave
  \/ handleUpdateConfig
  \/ handleUpdateConfigSave

SpecCrud == InitCrud /\ [][NextCrud]_vars

\* ------------------------------------------------------------- unique ids
IDs(cfg) == {cfg.tasks[i].id : i \in 1..Len(cfg.tasks)}

UniqueIDs(cfg) ==
  \A i, j \in 1..Len(cfg.tasks) : cfg.tasks[i].id = cfg.tasks[j].id => i = j

\* the step is a create request's SaveConfig, and it succeeds
CreateSaved == handleCreateTaskSave /\ out'.resp = "201"

\* C28: the ids of the tasks in the persisted config stay unique under every
\* interleaving of create, update and delete requests and writes of RunLoop;
\* a create request that succeeds appends exactly one task to the persisted
\* list, at its end, pending, with an id that no task of the list has.
C28_UniqueIDs ==
  [][/\ UniqueIDs(disk')
     /\ CreateSaved =>
          /\ Len(disk'.tasks) = Len(disk.tasks) + 1
          /\ \A i \in 1..Len(disk.tasks) : disk'.tasks[i].id = disk.tasks[i].id
          /\ disk'.tasks[Len(disk'.tasks)].status = StatusPending
          /\ disk'.tasks[Len(disk'.tasks)].id \notin IDs(disk)
    ]_vars

\* -------------------------------------------------------- rejected requests
TaskRejections ==
  {"400 title is required", "404 task not found",
   "409 cannot modify in_progress task", "409 cannot delete in_progress task"}

\* some task of the persisted config with an id of a request path is
\* in_progress
AddressedInProgress ==
  \E id \in PathIds :
    /\ IndexOfID(disk, id) # 0
    /\ disk.tasks[IndexOfID(disk, id)].status = StatusInProgress

\* C29: a task request that is rejected (400 for a create with an empty
\* title, 404 for an update or delete of an id no task has, 409 for an
\* update or delete of a task that is in_progress in the persisted config)
\* leaves the persisted config as it is and saves nothing later; an update or
\* delete that is not rejected addresses a task that exists and is not
\* in_progress in the config it loaded.
C29_RejectedUnchanged ==
  [][/\ out'.resp \in TaskRejections =>
          /\ UNCHANGED <<disk, hcfg, reqs, mu>>
          /\ out'.resp = "404 task not found" =>
               \E id \in PathIds : IndexOfID(disk, id) = 0
          /\ out'.resp \in {"409 cannot modify in_progress task",
                           "409 cannot delete in_progress task"} =>
               AddressedInProgress
          /\ out'.resp = "409 cannot modify in_progress task" => handleUpdateTask
          /\ out'.resp = "409 cannot delete in_progress task" => handleDeleteTask
          /\ out'.resp = "400 title is required" => handleCreateTask
     /\ ((handleUpdateTask \/ handleDeleteTask) /\ mu') =>
          \E i \in 1..Len(disk.tasks) :
            /\ disk.tasks[i].id \in PathIds
            /\ disk.tasks[i].status # StatusInProgress
            /\ \/ hcfg'.tasks = RemoveAt(disk.tasks, i)
               \/ /\ Len(hcfg'.tasks) = Len(disk.tasks)
                  /\ \A j \in 1..Len(disk.tasks) :
                       j # i => hcfg'.tasks[j] = disk.tasks[j]
    ]_vars

\* an update of the task RunLoop is working on has been rejected, after a
\* task request that was accepted
C29_Witness ==
  /\ out.resp = "409 cannot modify in_progress task"
  /\ AddressedInProgress
  /\ issued.crud > MaxCrud - MaxCrudAlone

\* ----------------------------------------------------------- partial updates
\* the config apart from its tasks
Settings(cfg) == [cfg EXCEPT !.tasks = <<>>]

\* field `new` is what the request supplied, or else what it was
Supplied(given, value, old, new) == new = IF given THEN value ELSE old

\* task t2 is task t with the non-empty fields of the input, and nothing else
\* changed
TaskUpdated(t, t2, input) ==
  /\ t2.id = t.id /\ t2.status = t.status /\ t2.learnings = t.learnings
  /\ Supplied(input.title # "", input.title, t.title, t2.title)
  /\ Supplied(input.description # "", input.description, t.description, t2.description)
  /\ Supplied(input.provider # "", input.provider, t.provider, t2.provider)

\* C30: an update of a task that succeeds changes, in the persisted config,
\* only the fields among title, description and provider that the request
\* supplied non-empty, of the task addressed: not its id, its status or its
\* learnings, no other task, no setting; an update of the config that
\* succeeds changes only the settings supplied among provider, branch, gates
\* and maxIterations, and no task; a delete that succeeds removes the task
\* addressed and keeps the others as they are, in order.
C30_PartialUpdates ==
  [][/\ (handleUpdateTaskSave /\ out'.resp = "200") =>
          /\ Settings(disk') = Settings(disk)
          /\ Len(disk'.tasks) = Len(disk.tasks)
          /\ \E i \in 1..Len(disk.tasks), input \in UpdateTaskInputs :
               /\ disk.tasks[i].id \in PathIds
               /\ TaskUpdated(disk.tasks[i], disk'.tasks[i], input)
               /\ \A j \in 1..Len(disk.tasks) :
                    j # i => disk'.tasks[j] = disk.tasks[j]
     /\ (handleUpdateConfigSave /\ out'.resp = "200") =>
          /\ disk'.tasks = disk.tasks
          /\ disk'.name = disk.name
          /\ \E input \in UpdateConfigInputs :
               /\ Supplied(input.provider # "", input.provider,
                           disk.provider, disk'.provider)
               /\ Supplied(input.branch # "", input.branch, disk.branch, disk'.branch)
               /\ Supplied(input.hasGates, input.gates, disk.gates, disk'.gates)
               /\ Supplied(input.maxIterations # -1, input.maxIterations,
                           disk.maxIterations, disk'.maxIterations)
     /\ (handleDeleteTaskSave /\ out'.resp = "204") =>
          /\ Settings(disk') = Settings(disk)
          /\ \E i \in 1..Len(disk.tasks) :
               /\ disk.tasks[i].id \in PathIds
               /\ disk'.tasks = RemoveAt(disk.tasks, i)
    ]_vars

\* ------------------------------------------------- an unreliable config file
\* the server on a config file whose reads and writes may fail, with room for
\* MaxFaultyReq requests
MaxFaultyReq == 2

InitFaulty ==
  /\ disk = InitConfig(InitMaxIterations, "")
  /\ loopRunning = FALSE
  /\ loopCancel = 0
  /\ mu = FALSE
  /\ hcfg = NoCfg
  /\ reqs = EmptyBag
  /\ issued = [all |-> MaxReq - MaxFaultyReq, crud |-> 0]
  /\ runs = [r \in RunIds |-> NoRun]
  /\ out = NoOut
  /\ faulty = TRUE
  /\ NoCalls
  /\ NewEventHub

SpecFaulty == InitFaulty /\ [][Next]_vars

\* the step is a SaveConfig of a handler that leaves the file as it was
\* although the copy it writes differs: the write failed
HandlerSaveFailed ==
  /\ \/ handleCreateTaskSave \/ handleUpdateTaskSave \/ handleDeleteTaskSave
     \/ handleUpdateConfigSave \/ handleLoopSkipSave
  /\ hcfg # disk
  /\ disk' = disk

\* the step is the LoadConfig of skip() after it has released the lock, and
\* it fails: a pending task is on file, yet no restart follows
SkipReloadFailed ==
  /\ handleLoopSkipReload
  /\ NextPendingTask(disk) # 0
  /\ At("skip", "restart")' = {}

\* the step is a SaveConfig of RunLoop r that fails: RunLoop was to write a
\* copy that differs from the file, and the file is as it was
EngineSaveFailed(r) ==
  /\ \/ EngineSelect(r) /\ NextPendingTask(runs[r].cfg) # 0
     \/ EngineUnknownProvider(r)
     \/ EnginePersist(r) /\ runs[r].cfg # disk
  /\ disk' = disk

ErrorResponses == {"500 failed to load config", "500 failed to save config"}

\* C31: an operation whose read or write of the config file fails ends in
\* an error and never in a success: a handler whose SaveConfig fails answers
\* 500 in that step, skip() whose second LoadConfig fails does not answer
\* 200, and a RunLoop whose SaveConfig fails returns an error.
C31_PersistenceErrorsSurfaced ==
  [][/\ HandlerSaveFailed => out'.resp \in ErrorResponses
     /\ SkipReloadFailed => out'.resp \in ErrorResponses
     /\ \A r \in RunIds :
          EngineSaveFailed(r) => runs'[r].pc = "returned" /\ runs'[r].err # ""
    ]_vars

\* ------------------------------------------------------- a successful start
\* start() has stored the context of run r and has yet to broadcast
\* loop_started
Starting(r) == \E c \in At("start", "spawn") : c.run = r

\* C32: a start() that is not refused sets loopRunning and stores the
\* CancelFunc of a context never used before, in its critical section; it
\* broadcasts loop_started in the step in which it answers 200; and the run
\* under that context broadcasts nothing, and does not begin, before that
\* step.
C32_StartedFirst ==
  [][/\ (handleLoopStart /\ At("start", "spawn")' # At("start", "spawn")) =>
          /\ loopRunning' /\ ~mu'
          /\ loopCancel' \in RunIds
          /\ runs[loopCancel'].pc = "none"
          /\ \E c \in At("start", "spawn")' : c.run = loopCancel'
          /\ disk' = disk
     /\ handleLoopStartSpawn =>
          /\ out'.resp = "200 started"
          /\ Len(out'.events) = 1
          /\ out'.events[1].type = EventLoopStarted
          /\ \E r \in RunIds :
               Starting(r) /\ ~Starting(r)' /\ runs'[r].pc = "load"
     /\ \A r \in RunIds :
          Starting(r) =>
            /\ runs[r].pc = "created"
            /\ runs'[r].ev = <<>>
            /\ (runs'[r].pc # "created" => handleLoopStartSpawn)
     /\ \A r \in RunIds :
          (runs[r].pc = "created" /\ runs'[r].pc # "created") =>
            out'.events = <<Event(EventLoopStarted, "", Data(runs'[r].provider, 0, FALSE))>>
    ]_vars

\* start() has answered 200 with its loop_started event, and the run it
\* spawned has yet to take its first step
C32_Witness ==
  /\ out.resp = "200 started"
  /\ out.events # <<>>
  /\ loopRunning
  /\ loopCancel # 0
  /\ runs[loopCancel].pc = "load"

\* ------------------------------------------------- the order of the writes
Terminal == {StatusDone, StatusFailed}

Active(r) == Executing(r) \/ runs[r].pc \in {"returned", "unlocked"}

\* C34: stop() never waits for RunLoop or its goroutine: it can take the
\* lock whenever no handler holds it, wherever the runs are, and can
\* broadcast loop_stopped as soon as it has released it; its critical
\* section leaves loopRunning false and no CancelFunc stored, and changes
\* nothing of a run but the cancellation of its context; and the goroutine
\* of a cancelled run still broadcasts loop_completed or loop_error when it
\* ends.
C34_StopDoesNotWait ==
  /\ []((~mu /\ Fresh) => ENABLED handleLoopStop)
  /\ [](At("stop", "broadcast") # {} => ENABLED handleLoopStopBroadcast)
  /\ [][/\ handleLoopStop =>
             /\ ~loopRunning' \/ (loopCancel = 0 /\ UNCHANGED ctlVars)
             /\ loopCancel' = 0
             /\ \A r \in RunIds :
                  /\ [runs'[r] EXCEPT !.cancelled = FALSE]
                       = [runs[r] EXCEPT !.cancelled = FALSE]
                  /\ runs'[r].cancelled = (runs[r].cancelled \/ r = loopCancel)
        /\ handleLoopStopBroadcast =>
             out' = Out("200 stopped", <<Event(EventLoopStopped, "", NoData)>>)
        /\ \A r \in RunIds :
             (runs[r].cancelled /\ Active(r) /\ ~Active(r)') =>
               /\ Len(runs'[r].ev) = 1
               /\ runs'[r].ev[1].type \in {EventLoopCompleted, EventLoopError}
       ]_vars

\* start() and then stop() have been called and nothing else; stop() has
\* answered 200 and broadcast loop_stopped, loopRunning is false, and the
\* RunLoop it cancelled is still in its provider call, its terminal event
\* yet to come
C34_Witness ==
  /\ out = Out("200 stopped", <<Event(EventLoopStopped, "", NoData)>>)
  /\ ~loopRunning
  /\ loopCancel = 0
  /\ issued.all = 2
  /\ reqs = EmptyBag
  /\ \E r \in RunIds :
       /\ runs[r].cancelled
       /\ runs[r].pc = "provider"
       /\ ENABLED EngineProviderReturn(r)

\* ----------------------------------------------- the state of the Controller
\* C35: whenever no handler holds Server.mu, loopRunning is true exactly
\* when a CancelFunc is stored in loopCancel.
C35_RunningIffCancel == ~mu => (loopRunning <=> loopCancel # 0)

\* a first run has been started and has ended, a second one is running and
\* its CancelFunc is the one stored
C35_Witness ==
  /\ ~mu
  /\ loopRunning
  /\ loopCancel = 2
  /\ runs[1].pc = "dead"
  /\ Executing(2)

\* ------------------------------------------------ the run the state is about
\* C36: while a RunLoop is executing under a context that has not been
\* cancelled, loopRunning is true and the CancelFunc stored is that of its
\* context; the completion code of the goroutine of an earlier run, stopped
\* or skipped, leaves the state of a later run as it is.
C36_StateOfLiveRun ==
  \A r \in RunIds :
    (Executing(r) /\ ~runs[r].cancelled) => (loopRunning /\ loopCancel = r)

\* --------------------------------------------------- a run that is stopped
\* the server after one start(): its run has been spawned; from here on only
\* stop() and status() are called, so that no second run is started; the
\* second task may name a provider that is not registered
InitStop ==
  /\ \E p2 \in {"", "bogus"} : disk = InitConfig(InitMaxIterations, p2)
  /\ loopRunning = TRUE
  /\ loopCancel = 1
  /\ mu = FALSE
  /\ hcfg = NoCfg
  /\ reqs = EmptyBag
  /\ issued = [all |-> 1, crud |-> 0]
  /\ runs = [r \in RunIds |->
               IF r = 1 THEN [NoRun EXCEPT !.pc = "load", !.provider = disk.provider]
               ELSE NoRun]
  /\ out = NoOut
  /\ faulty = FALSE
  /\ NoCalls
  /\ NewEventHub

NextStop ==
  \/ \E r \in RunIds : EngineLoad(r)
  \/ \E r \in RunIds : EngineSelect(r)
  \/ \E r \in RunIds : EngineUnknownProvider(r)
  \/ \E r \in RunIds : EngineProviderReturn(r)
  \/ \E r \in RunIds : EngineGatesReturn(r)
  \/ \E r \in RunIds : EnginePersist(r)
  \/ \E r \in RunIds : EngineComplete(r)
  \/ \E r \in RunIds : EngineTerminal(r)
  \/ handleLoopStop
  \/ handleLoopStopBroadcast
  \/ handleLoopStatus

SpecStop == InitStop /\ [][NextStop]_vars

\* C37: once stop() has cancelled the context of a run, every task that is
\* pending in the file stays as it is, status and learnings, in every later
\* step: the cancelled RunLoop marks no further task in_progress.
C37_CancelledStartsNoTask ==
  [][(\E r \in RunIds : runs[r].cancelled) =>
       \A i \in 1..Len(disk.tasks) :
         disk.tasks[i].status = StatusPending =>
           /\ i <= Len(disk'.tasks)
           /\ disk'.tasks[i] = disk.tasks[i]
    ]_vars

\* --------------------------------------------------- any iteration ceiling
\* C38: whatever maxIterations is, when RunLoop comes back to choose the
\* next task, the task it had marked in_progress is done or failed in its
\* copy and in the file it has just written; and it returns without an
\* error only with no task of its copy in_progress.
C38_MarkedTasksEnd ==
  [][\A r \in RunIds :
       /\ (runs[r].pc \in {"persist", "unknown"} /\ runs'[r].pc = "select") =>
            /\ CurTask(runs'[r]).status \in Terminal
            /\ disk'.tasks[runs[r].cur].status \in Terminal
       /\ (runs[r].pc = "select" /\ runs'[r].pc = "returned" /\ runs'[r].err = "") =>
            InProgressTasks(runs[r].cfg) = {}
    ]_vars

\* ------------------------------------------------ outcomes seen as events
\* run r broadcasts an event of the given type for the task it works on, in
\* this step
Announces(r, type) ==
  \E k \in 1..Len(runs'[r].ev) :
    /\ runs'[r].ev[k].type = type
    /\ runs'[r].ev[k].taskId = CurTask(runs[r]).id

\* C39: in the step in which RunLoop gives a task the status done it
\* broadcasts task_done with the id of the task, and in the step in which it
\* gives a task the status failed (the gates failing on the last iteration,
\* the provider failing on the last iteration, the provider not registered)
\* it broadcasts task_failed with the id of the task.
C39_OutcomesAnnounced ==
  [][\A r \in RunIds :
       /\ Marks(r, StatusDone) => Announces(r, EventTaskDone)
       /\ Marks(r, StatusFailed) => Announces(r, EventTaskFailed)
    ]_vars

\* ---------------------------------------------------------- termination
\* the server after one start(), on a config with any iteration ceiling up
\* to InitMaxIterations; only stop() and status() are called from here on.
\* The goroutine of the run is scheduled again and again, the calls of the
\* provider and of the gates return, and the lock is granted to the
\* completion code: every step of the run that can be taken is taken
\* eventually.
InitLive ==
  /\ \E mi \in 0..InitMaxIterations, p2 \in {"", "bogus"} :
       disk = InitConfig(mi, p2)
  /\ loopRunning = TRUE
  /\ loopCancel = 1
  /\ mu = FALSE
  /\ hcfg = NoCfg
  /\ reqs = EmptyBag
  /\ issued = [all |-> 1, crud |-> 0]
  /\ runs = [r \in RunIds |->
               IF r = 1 THEN [NoRun EXCEPT !.pc = "load", !.provider = disk.provider]
               ELSE NoRun]
  /\ out = NoOut
  /\ faulty = FALSE
  /\ NoCalls
  /\ NewEventHub

\* a step of the goroutine of run r
GoroutineStep(r) ==
  \/ EngineLoad(r) \/ EngineSelect(r) \/ EngineUnknownProvider(r)
  \/ EngineProviderReturn(r) \/ EngineGatesReturn(r) \/ EnginePersist(r)
  \/ EngineComplete(r) \/ EngineTerminal(r)

SpecLive ==
  /\ InitLive
  /\ [][NextStop]_vars
  /\ \A r \in RunIds : WF_vars(GoroutineStep(r))

\* RunLoop r begins work on a task in this step
Attempts(r) ==
  /\ runs[r].pc = "select"
  /\ runs'[r].pc \in {"provider", "unknown", "persist"}

\* C40: RunLoop calls the provider at most maxIterations times for a task;
\* it begins work only on a task that is pending in its copy, and no task of
\* its copy becomes pending again, so that it works on each task pending
\* when it loaded at most once; and with the steps of the goroutine taken
\* when they can be and no further start() or skip(), the goroutine ends and
\* loopRunning is false from then on.
C40_Termination ==
  /\ [](\A r \in RunIds :
          /\ runs[r].calls >= 0
          /\ runs[r].calls > 0 => runs[r].calls <= runs[r].cfg.maxIterations)
  /\ [][\A r \in RunIds :
          /\ Attempts(r) =>
               runs[r].cfg.tasks[runs'[r].cur].status = StatusPending
          /\ (runs[r].pc # "load" /\ Executing(r) /\ Executing(r)') =>
               /\ Len(runs'[r].cfg.tasks) = Len(runs[r].cfg.tasks)
               /\ \A i \in 1..Len(runs[r].cfg.tasks) :
                    runs[r].cfg.tasks[i].status # StatusPending =>
                      runs'[r].cfg.tasks[i].status # StatusPending
       ]_vars
  /\ <>[](~loopRunning /\ \A r \in RunIds : runs[r].pc \in {"none", "dead"})

\* the run has ended without being cancelled, after the provider was called
\* maxIterations times for its first task, which failed, and its second
\* task was done; loopRunning is false
C40_Witness ==
  /\ ~loopRunning
  /\ runs[1].pc = "dead"
  /\ ~runs[1].cancelled
  /\ disk.maxIterations = InitMaxIterations
  /\ disk.tasks[1].status = StatusFailed
  /\ disk.tasks[1].learnings = <<Note("gates_failed", InitMaxIterations, "")>>
  /\ disk.tasks[2].status = StatusDone

====
